---- MODULE Spec2Model ----
(***************************************************************************)
(* Remote tool-call proxy bridge (remote-tools.js): the write cache, the   *)
(* edit-override mailbox, the sentinel-file command executor and the six   *)
(* tool handlers registered by registerTools.                              *)
(*                                                                         *)
(* Strings are sequences of one-character strings.  Times are in           *)
(* milliseconds, as Date.now() gives them.  An optional value (null in     *)
(* the source) is None or Some(v).  A handler is a process of its own: it  *)
(* runs from one await to the next in one step, and the remote operation   *)
(* it awaited takes effect in the step that resumes it.                    *)
(***************************************************************************)
EXTENDS Integers, Sequences, FiniteSets, TLC

VARIABLES
    now,            \* Date.now()
    folders,        \* vscode.workspace.workspaceFolders is non-empty
    reviewEdit,     \* a review gate was passed to registerTools
    onFileUpdated,  \* an update callback was passed to registerTools
    fsDisk,         \* remote path -> the file's content on the remote host
    fsView,         \* remote path -> what vscode.workspace.fs.readFile returns
    _writeCache,    \* remote path -> { content, timestamp }
    _editOverride,  \* { remotePath, content, timestamp } or null
    calls,          \* slot -> the tool call in that slot
    prev,           \* what the call before the current one did
    lastCW,         \* remote path -> the arguments of the last cacheWrite
    nCalls,         \* the number of tool calls made so far
    lastSet,        \* the last setEditOverride that was followed, or null
    useSSHExec,     \* the setting claudeCode.useSSHExec
    sshHost,        \* getSshHost() is not the empty string
    _terminalReady, \* the hidden terminal has had its 500 ms to start
    _execCounter,   \* the number of ids remoteExec has generated
    term,           \* the lines sent to the hidden terminal, not yet run
    shell,          \* what the shell of the hidden terminal is running
    sentinels,      \* id -> the files /tmp/.claude_exec_<id>.{out,err,exit}
    env,            \* vscode.env, the first workspace folder and the sshHost setting
    forceLocal,     \* the setting claudeCode.forceLocal
    extensionKind,  \* extensionKind in the package.json of the installed extension
    sync            \* what the last sync of extensionKind computed, or null

fileVars == <<now, folders, reviewEdit, onFileUpdated, fsDisk, fsView, _writeCache,
              _editOverride, calls, prev, lastCW, nCalls, lastSet>>

execVars == <<useSSHExec, sshHost, _terminalReady, _execCounter, term, shell, sentinels>>

kindVars == <<env, forceLocal, extensionKind, sync>>

vars == <<fileVars, execVars, kindVars>>

----------------------------------------------------------------------------
(* Optional values *)

None == [some |-> FALSE]

Some(v) == [some |-> TRUE, val |-> v]

----------------------------------------------------------------------------
(* Bounds of the model *)

MaxTime == 20000

FileTick == 10000

MaxOps == 2

MaxLen == 3

MaxExecTime == 1500

PollTick == 100

----------------------------------------------------------------------------
(* Strings *)

EmptyStr == << >>

\* text.startsWith(prefix)
startsWith(text, prefix) ==
    /\ Len(prefix) <= Len(text)
    /\ SubSeq(text, 1, Len(prefix)) = prefix

\* text.slice(from), 0-based
sliceFrom(text, from) == SubSeq(text, from + 1, Len(text))

\* text.indexOf(s): the 0-based position of the first occurrence, or -1
indexOf(text, s) ==
    LET hits == {i \in 0..(Len(text) - Len(s)) : SubSeq(text, i + 1, i + Len(s)) = s}
    IN  IF hits = {} THEN -1 ELSE CHOOSE i \in hits : \A j \in hits : i <= j

\* text.includes(s)
includes(text, s) == indexOf(text, s) # -1

\* text.split(s).length: the pieces between the occurrences of s found by
\* scanning from the left, each scan resuming after the occurrence before;
\* with s empty the pieces are the characters of text
RECURSIVE splitLength(_, _)
splitLength(text, s) ==
    IF s = EmptyStr THEN Len(text)
    ELSE LET i == indexOf(text, s)
         IN  IF i = -1 THEN 1
             ELSE 1 + splitLength(sliceFrom(text, i + Len(s)), s)

\* the replacement text of text.replace(old, new) with a string pattern: in
\* newText "$$" stands for "$", "$&" for the matched text, "$" and a backquote
\* for the text before the match, "$" and a quote for the text after it; any
\* other character, a "$" before anything else included, stands for itself.
\* The backquote is the symbol "bq" and the quote the symbol "sq".
RECURSIVE expandReplacement(_, _, _, _)
expandReplacement(newText, matched, before, after) ==
    IF newText = EmptyStr THEN EmptyStr
    ELSE IF Head(newText) = "$" /\ Len(newText) >= 2 /\ newText[2] \in {"$", "&", "bq", "sq"}
         THEN (CASE newText[2] = "$" -> <<"$">>
                 [] newText[2] = "&" -> matched
                 [] newText[2] = "bq" -> before
                 [] OTHER -> after)
              \o expandReplacement(sliceFrom(newText, 2), matched, before, after)
         ELSE <<Head(newText)>> \o expandReplacement(Tail(newText), matched, before, after)

\* text.replace(old, newText) with a string pattern: the first occurrence only
replace(text, old, newText) ==
    LET i == indexOf(text, old)
    IN  IF i = -1 THEN text
        ELSE LET before == SubSeq(text, 1, i)
                 after == sliceFrom(text, i + Len(old))
             IN  before \o expandReplacement(newText, old, before, after) \o after

\* "\n\n... [truncated] ...\n\n"
TruncationMarker ==
    <<"\n", "\n", ".", ".", ".", " ", "[", "t", "r", "u", "n", "c", "a", "t", "e", "d",
      "]", " ", ".", ".", ".", "\n", "\n">>

\* text.slice(-n): the last n characters; slice(-0) is slice(0), the whole text
sliceLast(text, n) ==
    IF n = 0 \/ n >= Len(text) THEN text ELSE SubSeq(text, Len(text) - n + 1, Len(text))

\* truncateOutput keeping the head alone
truncateOutputHead(text, maxChars) ==
    IF Len(text) <= maxChars THEN text
    ELSE SubSeq(text, 1, maxChars \div 2) \o TruncationMarker

truncateOutput(text, maxChars) ==
    IF Len(text) <= maxChars THEN text
    ELSE LET half == maxChars \div 2
         IN  SubSeq(text, 1, half) \o TruncationMarker \o sliceLast(text, half)

\* the default of maxChars in truncateOutput
DefaultMaxChars == 30000

----------------------------------------------------------------------------
(* Path resolver *)

\* folders[0].uri.path, the remote workspace root
RemoteCwd == <<"/", "w">>

\* getLocalCwd(): path.join(os.homedir(), ".claude", "remote", host, safeRemotePath)
\* with homedir "/h"; the directory names ".claude", "remote" and the host
\* are one symbol each
getLocalCwd ==
    <<"/", "h", "/", ".claude", "/", "remote", "/", "host", "/", "w">>

\* the throw of getRemoteCwd(): no workspace folder open
getRemoteCwdThrows(f) == ~f

\* text.split("/")
RECURSIVE splitSlash(_)
splitSlash(text) ==
    LET i == indexOf(text, <<"/">>)
    IN  IF i = -1 THEN <<text>>
        ELSE <<SubSeq(text, 1, i)>> \o splitSlash(sliceFrom(text, i + 1))

\* normalizeString of path.posix: "." and empty segments dropped, ".." takes
\* back the segment before it (above the root it is dropped, above a
\* relative path it is kept)
RECURSIVE normalizeSegments(_, _, _)
normalizeSegments(segs, acc, isAbs) ==
    IF segs = << >> THEN acc
    ELSE LET s == Head(segs)
             rest == Tail(segs)
         IN  IF s = EmptyStr \/ s = <<".">> THEN normalizeSegments(rest, acc, isAbs)
             ELSE IF s = <<".", ".">>
                  THEN IF acc # << >> /\ acc[Len(acc)] # <<".", ".">>
                       THEN normalizeSegments(rest, SubSeq(acc, 1, Len(acc) - 1), isAbs)
                       ELSE IF isAbs THEN normalizeSegments(rest, acc, isAbs)
                            ELSE normalizeSegments(rest, Append(acc, s), isAbs)
                  ELSE normalizeSegments(rest, Append(acc, s), isAbs)

RECURSIVE joinSlash(_)
joinSlash(segs) ==
    IF segs = << >> THEN EmptyStr
    ELSE IF Len(segs) = 1 THEN Head(segs)
         ELSE Head(segs) \o <<"/">> \o joinSlash(Tail(segs))

\* path.posix.isAbsolute(p)
isAbsolute(p) == Len(p) > 0 /\ p[1] = "/"

\* path.posix.normalize(p)
posixNormalize(p) ==
    IF p = EmptyStr THEN <<".">>
    ELSE LET isAbs == isAbsolute(p)
             trailing == p[Len(p)] = "/"
             body == joinSlash(normalizeSegments(splitSlash(p), << >>, isAbs))
             tail == IF body = EmptyStr
                     THEN (IF isAbs THEN EmptyStr ELSE <<".">>)
                     ELSE (IF trailing THEN body \o <<"/">> ELSE body)
         IN  IF isAbs THEN <<"/">> \o tail ELSE tail

\* path.posix.join(a, b)
posixJoin(a, b) ==
    LET joined == IF a = EmptyStr THEN b
                  ELSE IF b = EmptyStr THEN a
                       ELSE a \o <<"/">> \o b
    IN  posixNormalize(joined)

\* s.replace(/^[\/\\]/, "")
stripLeadingSep(s) ==
    IF Len(s) > 0 /\ s[1] \in {"/", "\\"} THEN Tail(s) ELSE s

toRemotePath(filePath) ==
    LET localPrefix == getLocalCwd
        remoteCwd == RemoteCwd
    IN  IF startsWith(filePath, localPrefix)
        THEN LET rel == stripLeadingSep(sliceFrom(filePath, Len(localPrefix)))
             IN  IF rel # EmptyStr THEN posixJoin(remoteCwd, rel) ELSE remoteCwd
        ELSE IF isAbsolute(filePath) THEN filePath
             ELSE posixJoin(remoteCwd, filePath)

----------------------------------------------------------------------------
(* Write cache *)

WRITE_CACHE_TTL == 10000

\* cacheWrite with the set left out
cacheWriteNever(cache, remotePath, content, t) == cache

\* _writeCache.set(remotePath, { content, timestamp: Date.now() })
cacheWrite(cache, remotePath, content, t) ==
    [cache EXCEPT ![remotePath] = Some([content |-> content, timestamp |-> t])]

\* getCachedWrite without the test of the entry's age
getCachedWriteAnyAge(cache, remotePath, t) ==
    LET entry == cache[remotePath]
    IN  IF ~entry.some THEN [ret |-> None, cache |-> cache]
        ELSE [ret |-> Some(entry.val.content), cache |-> cache]

\* ret is what getCachedWrite returns, cache the map it leaves
getCachedWrite(cache, remotePath, t) ==
    LET entry == cache[remotePath]
    IN  IF ~entry.some THEN [ret |-> None, cache |-> cache]
        ELSE IF t - entry.val.timestamp > WRITE_CACHE_TTL
             THEN [ret |-> None, cache |-> [cache EXCEPT ![remotePath] = None]]
             ELSE [ret |-> Some(entry.val.content), cache |-> cache]

----------------------------------------------------------------------------
(* Edit override *)

EDIT_OVERRIDE_TTL == 10000

setEditOverride(remotePath, content, t) ==
    Some([remotePath |-> remotePath, content |-> content, timestamp |-> t])

\* consumeEditOverride returning the content without clearing the mailbox
consumeEditOverrideKeep(ov, remotePath, t) ==
    IF /\ ov.some
       /\ ov.val.remotePath = remotePath
       /\ t - ov.val.timestamp < EDIT_OVERRIDE_TTL
    THEN [ret |-> Some(ov.val.content), ov |-> ov]
    ELSE IF ov.some /\ t - ov.val.timestamp >= EDIT_OVERRIDE_TTL
         THEN [ret |-> None, ov |-> None]
         ELSE [ret |-> None, ov |-> ov]

\* consumeEditOverride clearing the mailbox whenever it does not apply it
consumeEditOverrideDiscard(ov, remotePath, t) ==
    IF /\ ov.some
       /\ ov.val.remotePath = remotePath
       /\ t - ov.val.timestamp < EDIT_OVERRIDE_TTL
    THEN [ret |-> Some(ov.val.content), ov |-> None]
    ELSE [ret |-> None, ov |-> None]

\* consumeEditOverride without the test of the override's age
consumeEditOverrideNoExpiry(ov, remotePath, t) ==
    IF ov.some /\ ov.val.remotePath = remotePath
    THEN [ret |-> Some(ov.val.content), ov |-> None]
    ELSE [ret |-> None, ov |-> ov]

\* consumeEditOverride without the test of the path
consumeEditOverrideAnyPath(ov, remotePath, t) ==
    IF ov.some /\ t - ov.val.timestamp < EDIT_OVERRIDE_TTL
    THEN [ret |-> Some(ov.val.content), ov |-> None]
    ELSE [ret |-> None, ov |-> None]

\* ret is what consumeEditOverride returns, ov the mailbox it leaves
consumeEditOverride(ov, remotePath, t) ==
    IF /\ ov.some
       /\ ov.val.remotePath = remotePath
       /\ t - ov.val.timestamp < EDIT_OVERRIDE_TTL
    THEN [ret |-> Some(ov.val.content), ov |-> None]
    ELSE IF ov.some /\ t - ov.val.timestamp >= EDIT_OVERRIDE_TTL
         THEN [ret |-> None, ov |-> None]
         ELSE [ret |-> None, ov |-> ov]

----------------------------------------------------------------------------
(* Tool calls *)

MaxCalls == 2

Slots == 1..MaxCalls

\* a Tool Call Result: { content: [{ type: "text", text }], isError }; kind
\* names the message, text is the text a read returns
Ok(kind, text) == [isError |-> FALSE, kind |-> kind, text |-> text]

Err(kind) == [isError |-> TRUE, kind |-> kind, text |-> EmptyStr]

NoResult == [isError |-> FALSE, kind |-> "none", text |-> EmptyStr]

NoLook == [done |-> FALSE, entry |-> None, at |-> 0, ret |-> None, removed |-> FALSE]

NoCons ==
    [done |-> FALSE, before |-> None, at |-> 0, ret |-> None, after |-> None,
     over |-> None]

\* An execution of a command by a call: how it runs (via), the id and the
\* arguments of remoteExec, startTime, the time its timer fires (wakeAt),
\* what it has read (exitStr, exitCode, stdout, stderr), and what it has
\* done so far: submitted (the wrapped command was sent), polled (the exit
\* file was read), outRead and errRead (how the reads of the output files
\* went), cleanups (the cleanup lines it sent), end (how it ended)
NoExec ==
    [via |-> "none", id |-> <<0, 0>>, command |-> EmptyStr, cwd |-> EmptyStr,
     timeoutMs |-> 0, startTime |-> 0, wakeAt |-> 0, exitStr |-> None, exitCode |-> 0,
     stdout |-> EmptyStr, stderr |-> EmptyStr, submitted |-> FALSE, polled |-> FALSE,
     outRead |-> "none", errRead |-> "none", cleanups |-> 0, end |-> "none",
     outLen |-> 0, errLen |-> 0, closedAt |-> 0]

\* A call: its position (pc), its input, the handler's local variables
\* (remotePath, ov for _override, oldText, proposed for the new content
\* handed to the review gate, final for _finalContent), its result, and
\* what it has done so far: look (its getCachedWrite: the last cacheWrite
\* for the path, the time, the value returned, whether the entry is gone),
\* cons (its consumeEditOverride: the mailbox before, the time, the value
\* returned, the mailbox after, and over: the last setEditOverride that
\* was followed), gate (reviewEdit was invoked), wrote (the
\* content it stored in the remote file), liveRead (it read the file
\* through the remote file primitive), failed (the operations it called
\* that threw), checked (edit_file tested its anchor), notified (calls of
\* onFileUpdated), ex (the execution of a command under way), log (the
\* executions that have ended), review (what reviewEdit resolved with),
\* disk0 and cache0 (the content of the remote file and the cache entry of
\* the path when the handler resolved it) and note (the old and the new
\* content it last handed to onFileUpdated)
NewCall(tool, file_path, content, old_string, new_string) ==
    [pc |-> "start", tool |-> tool, file_path |-> file_path, content |-> content,
     old_string |-> old_string, new_string |-> new_string,
     pattern |-> EmptyStr, include |-> EmptyStr, context |-> 0, max_results |-> 0,
     command |-> EmptyStr, timeout |-> 0, ex |-> NoExec, log |-> << >>,
     remotePath |-> EmptyStr, ov |-> None, oldText |-> EmptyStr,
     proposed |-> EmptyStr, final |-> EmptyStr, res |-> NoResult,
     look |-> NoLook, cons |-> NoCons, gate |-> FALSE, wrote |-> None,
     liveRead |-> FALSE, failed |-> {}, checked |-> FALSE, notified |-> 0,
     review |-> None, disk0 |-> None, cache0 |-> None, note |-> None]

IdleCall == [NewCall("none", EmptyStr, EmptyStr, EmptyStr, EmptyStr) EXCEPT !.pc = "idle"]

\* what is kept of a call once the next one starts
Summary(c) ==
    [tool |-> c.tool, remotePath |-> c.remotePath, isError |-> c.res.isError,
     content |-> c.content, wrote |-> c.wrote, usedOv |-> c.ov.some,
     gate |-> c.gate,
     sawOther |-> /\ c.cons.done
                  /\ c.cons.before.some
                  /\ c.cons.before.val.remotePath # c.remotePath
                  /\ c.cons.at - c.cons.before.val.timestamp < EDIT_OVERRIDE_TTL,
     ovLeft |-> c.cons.after]

NoPrev == Summary(IdleCall)

\* the handler returns a result
return(c, res) == [c EXCEPT !.pc = "done", !.res = res]

\* an exception thrown in the handler escapes to its caller
escape(c, cause) == [c EXCEPT !.pc = "escaped", !.failed = @ \cup {cause}]

\* try { ... } catch (err) { return { ..., isError: true } } around the
\* whole body of each handler
handlerCatch(c, cause) == return([c EXCEPT !.failed = @ \cup {cause}], Err(cause))

Free(s) == calls[s].pc \in {"idle", "done", "escaped"}

Collect(s) == IF calls[s].pc = "done" THEN Summary(calls[s]) ELSE prev

\* await vscode.workspace.fs.readFile(uri): the bytes the primitive holds,
\* or a throw (None) when it holds no file or the read fails
LiveReads(remotePath) ==
    {None} \cup (IF fsView[remotePath].some THEN {fsView[remotePath]} ELSE {})

\* var _override = consumeEditOverride(remotePath), on the call's record
withConsume(c, remotePath, co) ==
    [c EXCEPT !.remotePath = remotePath, !.ov = co.ret,
              !.disk0 = fsDisk[remotePath],
              !.cache0 = _writeCache[remotePath],
              !.cons = [done |-> TRUE, before |-> _editOverride, at |-> now,
                        ret |-> co.ret, after |-> co.ov, over |-> lastSet]]

\* getCachedWrite(remotePath), on the call's record
withLookup(c, remotePath, gc) ==
    [c EXCEPT !.remotePath = remotePath,
              !.look = [done |-> TRUE, entry |-> lastCW[remotePath], at |-> now,
                        ret |-> gc.ret, removed |-> ~gc.cache[remotePath].some]]

\* the end of write_file and edit_file with cacheWrite and onFileUpdated
\* moved before the await of writeFile: they happen also when the write fails
CommitWriteCacheFirst(s, content, kind) ==
    LET c == calls[s]
        c1 == IF onFileUpdated
              THEN [c EXCEPT !.notified = c.notified + 1,
                             !.note = Some(<<c.oldText, content>>)]
              ELSE c
    IN  /\ _writeCache' = cacheWrite(_writeCache, c.remotePath, content, now)
        /\ lastCW' = [lastCW EXCEPT ![c.remotePath] =
                          Some([content |-> content, timestamp |-> now])]
        /\ \E ok \in BOOLEAN :
               IF ok
               THEN /\ fsDisk' = [fsDisk EXCEPT ![c.remotePath] = Some(content)]
                    /\ calls' = [calls EXCEPT ![s] =
                                     return([c1 EXCEPT !.wrote = Some(content)],
                                            Ok(kind, EmptyStr))]
               ELSE /\ calls' = [calls EXCEPT ![s] = handlerCatch(c1, "IOFailure")]
                    /\ UNCHANGED fsDisk

\* await vscode.workspace.fs.writeFile(uri, ...); cacheWrite(remotePath, ...);
\* onFileUpdated(...); return { ... }: the end of write_file and edit_file
CommitWrite(s, content, kind) ==
    LET c == calls[s]
    IN  \E ok \in BOOLEAN :
            IF ok
            THEN /\ fsDisk' = [fsDisk EXCEPT ![c.remotePath] = Some(content)]
                 /\ _writeCache' = cacheWrite(_writeCache, c.remotePath, content, now)
                 /\ lastCW' = [lastCW EXCEPT ![c.remotePath] =
                                   Some([content |-> content, timestamp |-> now])]
                 /\ calls' = [calls EXCEPT ![s] =
                                  return(IF onFileUpdated
                                         THEN [c EXCEPT !.wrote = Some(content),
                                                        !.notified = c.notified + 1,
                                                        !.note = Some(<<c.oldText, content>>)]
                                         ELSE [c EXCEPT !.wrote = Some(content)],
                                         Ok(kind, EmptyStr))]
            ELSE /\ calls' = [calls EXCEPT ![s] = handlerCatch(c, "IOFailure")]
                 /\ UNCHANGED <<fsDisk, _writeCache, lastCW>>

\* the contents a reviewer may accept: the proposed one, or one of their own
ReviewerContents == {<<"b">>}

\* what reviewEdit resolves with: { accepted, finalContent }
Review(accepted, finalContent) == [accepted |-> accepted, finalContent |-> finalContent]

\* the review gate with the test of _review.accepted left out
ReviewGateAcceptAll(s, rejectKind) ==
    LET c == calls[s]
    IN  \E outcome \in {"accept", "reject", "throw"} :
        \E finalContent \in {c.proposed} \cup ReviewerContents :
            calls' = [calls EXCEPT ![s] =
                CASE outcome = "throw" ->
                         handlerCatch([c EXCEPT !.gate = TRUE], "ReviewFailed")
                  [] OTHER ->
                         [c EXCEPT !.gate = TRUE,
                                   !.review = Some(Review(outcome = "accept", finalContent)),
                                   !.final = finalContent, !.pc = "write"]]

\* var _review = await reviewEdit(...) and what follows it up to writeFile
ReviewGate(s, rejectKind) ==
    LET c == calls[s]
    IN  \E outcome \in {"accept", "reject", "throw"} :
        \E finalContent \in {c.proposed} \cup ReviewerContents :
            calls' = [calls EXCEPT ![s] =
                CASE outcome = "throw" ->
                         handlerCatch([c EXCEPT !.gate = TRUE], "ReviewFailed")
                  [] outcome = "reject" ->
                         return([c EXCEPT !.gate = TRUE,
                                          !.review = Some(Review(FALSE, finalContent))],
                                Err(rejectKind))
                  [] OTHER ->
                         [c EXCEPT !.gate = TRUE,
                                   !.review = Some(Review(TRUE, finalContent)),
                                   !.final = finalContent, !.pc = "write"]]

----------------------------------------------------------------------------
(* read_file (offset and limit not given) *)

ReadFileStart(s, file_path) ==
    /\ Free(s)
    /\ nCalls < MaxOps
    /\ nCalls' = nCalls + 1
    /\ prev' = Collect(s)
    /\ LET c0 == NewCall("read_file", file_path, EmptyStr, EmptyStr, EmptyStr)
       IN  IF getRemoteCwdThrows(folders)
           THEN /\ calls' = [calls EXCEPT ![s] = handlerCatch(c0, "NoWorkspace")]
                /\ UNCHANGED _writeCache
           ELSE LET remotePath == toRemotePath(file_path)
                    gc == getCachedWrite(_writeCache, remotePath, now)
                    c1 == withLookup(c0, remotePath, gc)
                IN  /\ _writeCache' = gc.cache
                    /\ calls' = [calls EXCEPT ![s] =
                           IF gc.ret.some
                           THEN return(c1, Ok("text", truncateOutput(gc.ret.val, DefaultMaxChars)))
                           ELSE [c1 EXCEPT !.pc = "read"]]
    /\ UNCHANGED <<now, folders, reviewEdit, onFileUpdated, fsDisk, fsView, _editOverride, lastCW>>
    /\ UNCHANGED execVars
    /\ UNCHANGED kindVars
    /\ UNCHANGED lastSet

ReadFileRead(s) ==
    /\ calls[s].tool = "read_file"
    /\ calls[s].pc = "read"
    /\ \E data \in LiveReads(calls[s].remotePath) :
           LET c == [calls[s] EXCEPT !.liveRead = TRUE]
           IN  calls' = [calls EXCEPT ![s] =
                   IF data.some
                   THEN return(c, Ok("text", truncateOutput(data.val, DefaultMaxChars)))
                   ELSE handlerCatch(c, "IOFailure")]
    /\ UNCHANGED <<now, folders, reviewEdit, onFileUpdated, fsDisk, fsView, _writeCache,
                   _editOverride, prev, lastCW, nCalls>>
    /\ UNCHANGED execVars
    /\ UNCHANGED kindVars
    /\ UNCHANGED lastSet

----------------------------------------------------------------------------
(* write_file *)

\* from "Review mode" to the await of reviewEdit or of writeFile
writeFileGate(c) ==
    IF reviewEdit
    THEN [c EXCEPT !.proposed = c.content, !.pc = "review"]
    ELSE [c EXCEPT !.proposed = c.content, !.final = c.content, !.pc = "write"]

WriteFileStart(s, file_path, content) ==
    /\ Free(s)
    /\ nCalls < MaxOps
    /\ nCalls' = nCalls + 1
    /\ prev' = Collect(s)
    /\ LET c0 == NewCall("write_file", file_path, content, EmptyStr, EmptyStr)
       IN  IF getRemoteCwdThrows(folders)
           THEN /\ calls' = [calls EXCEPT ![s] = handlerCatch(c0, "NoWorkspace")]
                /\ UNCHANGED <<_writeCache, _editOverride>>
           ELSE LET remotePath == toRemotePath(file_path)
                    co == consumeEditOverride(_editOverride, remotePath, now)
                    gc == getCachedWrite(_writeCache, remotePath, now)
                    \* let oldText = getCachedWrite(remotePath) || ""
                    oldText == IF gc.ret.some THEN gc.ret.val ELSE EmptyStr
                    c1 == [withLookup(withConsume(c0, remotePath, co), remotePath, gc)
                               EXCEPT !.oldText = oldText]
                IN  /\ _editOverride' = co.ov
                    /\ _writeCache' = gc.cache
                    /\ calls' = [calls EXCEPT ![s] =
                           IF co.ret.some
                           THEN [c1 EXCEPT !.pc = IF oldText = EmptyStr
                                                  THEN "ovRead" ELSE "ovWrite"]
                           ELSE IF oldText = EmptyStr
                                THEN [c1 EXCEPT !.pc = "read"]
                                ELSE writeFileGate(c1)]
    /\ UNCHANGED <<now, folders, reviewEdit, onFileUpdated, fsDisk, fsView, lastCW>>
    /\ UNCHANGED execVars
    /\ UNCHANGED kindVars
    /\ UNCHANGED lastSet

\* the read of the old content on the override path; a throw is swallowed
WriteFileOvRead(s) ==
    /\ calls[s].tool = "write_file"
    /\ calls[s].pc = "ovRead"
    /\ \E data \in LiveReads(calls[s].remotePath) :
           calls' = [calls EXCEPT ![s] =
               [calls[s] EXCEPT !.liveRead = TRUE,
                                !.failed = IF data.some THEN @ ELSE @ \cup {"PriorRead"},
                                !.oldText = IF data.some THEN data.val ELSE EmptyStr,
                                !.pc = "ovWrite"]]
    /\ UNCHANGED <<now, folders, reviewEdit, onFileUpdated, fsDisk, fsView, _writeCache,
                   _editOverride, prev, lastCW, nCalls>>
    /\ UNCHANGED execVars
    /\ UNCHANGED kindVars
    /\ UNCHANGED lastSet

WriteFileOvWrite(s) ==
    /\ calls[s].tool = "write_file"
    /\ calls[s].pc = "ovWrite"
    /\ CommitWrite(s, calls[s].ov.val, "wrote")
    /\ UNCHANGED <<now, folders, reviewEdit, onFileUpdated, fsView, _editOverride, prev, nCalls>>
    /\ UNCHANGED execVars
    /\ UNCHANGED kindVars
    /\ UNCHANGED lastSet

\* the read of the old content; a throw is swallowed
WriteFileRead(s) ==
    /\ calls[s].tool = "write_file"
    /\ calls[s].pc = "read"
    /\ \E data \in LiveReads(calls[s].remotePath) :
           calls' = [calls EXCEPT ![s] =
               writeFileGate([calls[s] EXCEPT
                   !.liveRead = TRUE,
                   !.failed = IF data.some THEN @ ELSE @ \cup {"PriorRead"},
                   !.oldText = IF data.some THEN data.val ELSE EmptyStr])]
    /\ UNCHANGED <<now, folders, reviewEdit, onFileUpdated, fsDisk, fsView, _writeCache,
                   _editOverride, prev, lastCW, nCalls>>
    /\ UNCHANGED execVars
    /\ UNCHANGED kindVars
    /\ UNCHANGED lastSet

WriteFileReview(s) ==
    /\ calls[s].tool = "write_file"
    /\ calls[s].pc = "review"
    /\ ReviewGate(s, "Rejected")
    /\ UNCHANGED <<now, folders, reviewEdit, onFileUpdated, fsDisk, fsView, _writeCache,
                   _editOverride, prev, lastCW, nCalls>>
    /\ UNCHANGED execVars
    /\ UNCHANGED kindVars
    /\ UNCHANGED lastSet

WriteFileWrite(s) ==
    /\ calls[s].tool = "write_file"
    /\ calls[s].pc = "write"
    /\ CommitWrite(s, calls[s].final, "wrote")
    /\ UNCHANGED <<now, folders, reviewEdit, onFileUpdated, fsView, _editOverride, prev, nCalls>>
    /\ UNCHANGED execVars
    /\ UNCHANGED kindVars
    /\ UNCHANGED lastSet

----------------------------------------------------------------------------
(* edit_file *)

\* from the anchor checks to the await of reviewEdit or of writeFile
editFileCheck(c, oldText) ==
    LET c1 == [c EXCEPT !.oldText = oldText, !.checked = TRUE]
    IN  IF ~includes(oldText, c.old_string)
        THEN return(c1, Err("NotFound"))
        ELSE LET count == splitLength(oldText, c.old_string) - 1
             IN  IF count > 1
                 THEN return(c1, Err("Ambiguous"))
                 ELSE LET newText == replace(oldText, c.old_string, c.new_string)
                      IN  IF reviewEdit
                          THEN [c1 EXCEPT !.proposed = newText, !.pc = "review"]
                          ELSE [c1 EXCEPT !.proposed = newText, !.final = newText,
                                          !.pc = "write"]

EditFileStart(s, file_path, old_string, new_string) ==
    /\ Free(s)
    /\ nCalls < MaxOps
    /\ nCalls' = nCalls + 1
    /\ prev' = Collect(s)
    /\ LET c0 == NewCall("edit_file", file_path, EmptyStr, old_string, new_string)
       IN  IF getRemoteCwdThrows(folders)
           THEN /\ calls' = [calls EXCEPT ![s] = handlerCatch(c0, "NoWorkspace")]
                /\ UNCHANGED <<_writeCache, _editOverride>>
           ELSE LET remotePath == toRemotePath(file_path)
                    co == consumeEditOverride(_editOverride, remotePath, now)
                    gc == getCachedWrite(_writeCache, remotePath, now)
                    c1 == withLookup(withConsume(c0, remotePath, co), remotePath, gc)
                IN  /\ _editOverride' = co.ov
                    /\ _writeCache' = gc.cache
                    /\ calls' = [calls EXCEPT ![s] =
                           IF co.ret.some
                           THEN IF gc.ret.some
                                THEN [c1 EXCEPT !.oldText = gc.ret.val, !.pc = "ovWrite"]
                                ELSE [c1 EXCEPT !.pc = "ovRead"]
                           ELSE IF gc.ret.some
                                THEN editFileCheck(c1, gc.ret.val)
                                ELSE [c1 EXCEPT !.pc = "read"]]
    /\ UNCHANGED <<now, folders, reviewEdit, onFileUpdated, fsDisk, fsView, lastCW>>
    /\ UNCHANGED execVars
    /\ UNCHANGED kindVars
    /\ UNCHANGED lastSet

\* the read of the old content on the override path; a throw is swallowed
EditFileOvRead(s) ==
    /\ calls[s].tool = "edit_file"
    /\ calls[s].pc = "ovRead"
    /\ \E data \in LiveReads(calls[s].remotePath) :
           calls' = [calls EXCEPT ![s] =
               [calls[s] EXCEPT !.liveRead = TRUE,
                                !.failed = IF data.some THEN @ ELSE @ \cup {"PriorRead"},
                                !.oldText = IF data.some THEN data.val ELSE EmptyStr,
                                !.pc = "ovWrite"]]
    /\ UNCHANGED <<now, folders, reviewEdit, onFileUpdated, fsDisk, fsView, _writeCache,
                   _editOverride, prev, lastCW, nCalls>>
    /\ UNCHANGED execVars
    /\ UNCHANGED kindVars
    /\ UNCHANGED lastSet

EditFileOvWrite(s) ==
    /\ calls[s].tool = "edit_file"
    /\ calls[s].pc = "ovWrite"
    /\ CommitWrite(s, calls[s].ov.val, "edited")
    /\ UNCHANGED <<now, folders, reviewEdit, onFileUpdated, fsView, _editOverride, prev, nCalls>>
    /\ UNCHANGED execVars
    /\ UNCHANGED kindVars
    /\ UNCHANGED lastSet

\* the read of the current content; a throw ends the call
EditFileRead(s) ==
    /\ calls[s].tool = "edit_file"
    /\ calls[s].pc = "read"
    /\ \E data \in LiveReads(calls[s].remotePath) :
           LET c == [calls[s] EXCEPT !.liveRead = TRUE]
           IN  calls' = [calls EXCEPT ![s] =
                   IF data.some
                   THEN editFileCheck(c, data.val)
                   ELSE handlerCatch(c, "IOFailure")]
    /\ UNCHANGED <<now, folders, reviewEdit, onFileUpdated, fsDisk, fsView, _writeCache,
                   _editOverride, prev, lastCW, nCalls>>
    /\ UNCHANGED execVars
    /\ UNCHANGED kindVars
    /\ UNCHANGED lastSet

EditFileReview(s) ==
    /\ calls[s].tool = "edit_file"
    /\ calls[s].pc = "review"
    /\ ReviewGate(s, "Rejected")
    /\ UNCHANGED <<now, folders, reviewEdit, onFileUpdated, fsDisk, fsView, _writeCache,
                   _editOverride, prev, lastCW, nCalls>>
    /\ UNCHANGED execVars
    /\ UNCHANGED kindVars
    /\ UNCHANGED lastSet

EditFileWrite(s) ==
    /\ calls[s].tool = "edit_file"
    /\ calls[s].pc = "write"
    /\ CommitWrite(s, calls[s].final, "edited")
    /\ UNCHANGED <<now, folders, reviewEdit, onFileUpdated, fsView, _editOverride, prev, nCalls>>
    /\ UNCHANGED execVars
    /\ UNCHANGED kindVars
    /\ UNCHANGED lastSet

----------------------------------------------------------------------------
(* The remote command executor: numbers and text in the sentinel files *)

Digits == <<"0", "1", "2", "3", "4", "5", "6", "7", "8", "9">>

\* the decimal digits of n >= 0, as echo $? and a template literal write them
RECURSIVE toDigits(_)
toDigits(n) ==
    IF n < 10 THEN <<Digits[n + 1]>>
    ELSE toDigits(n \div 10) \o <<Digits[(n % 10) + 1]>>

isDigit(ch) == \E i \in 1..10 : Digits[i] = ch

digitValue(ch) == (CHOOSE i \in 1..10 : Digits[i] = ch) - 1

Whitespace == {" ", "\n"}

\* str.trim()
RECURSIVE trim(_)
trim(str) ==
    IF str = EmptyStr THEN str
    ELSE IF Head(str) \in Whitespace THEN trim(Tail(str))
    ELSE IF str[Len(str)] \in Whitespace THEN trim(SubSeq(str, 1, Len(str) - 1))
    ELSE str

RECURSIVE parseDigits(_, _)
parseDigits(str, acc) ==
    IF str = EmptyStr \/ ~isDigit(Head(str)) THEN acc
    ELSE parseDigits(Tail(str), 10 * acc + digitValue(Head(str)))

\* parseInt(str, 10) of a trimmed text without sign: None stands for NaN
parseInt(str) ==
    IF str = EmptyStr \/ ~isDigit(Head(str)) THEN None ELSE Some(parseDigits(str, 0))

\* "sq" stands for the single quote, "bs" for the backslash
RECURSIVE escapeQuotes(_)
escapeQuotes(str) ==
    IF str = EmptyStr THEN str
    ELSE (IF Head(str) = "sq" THEN <<"sq", "bs", "sq", "sq">> ELSE <<Head(str)>>)
             \o escapeQuotes(Tail(str))

shellEscape(str) == <<"sq">> \o escapeQuotes(str) \o <<"sq">>

----------------------------------------------------------------------------
(* The hidden terminal and its shell *)

pollInterval == 300

TerminalStartMs == 500

DefaultTimeoutMs == 120000

\* terminal.sendText of the wrapped command:
\* (cd <cwd> && <command>) > <id>.out 2> <id>.err; echo $? > <id>.exit
RunLine(id, command, cwd) == [kind |-> "run", id |-> id, command |-> command, cwd |-> cwd]

\* rm -f <id>.out <id>.err <id>.exit
RmLine(id) == [kind |-> "rm", id |-> id, command |-> EmptyStr, cwd |-> EmptyStr]

\* kill %1 2>/dev/null; rm -f <id>.out <id>.err <id>.exit
KillLine(id) == [kind |-> "kill", id |-> id, command |-> EmptyStr, cwd |-> EmptyStr]

\* no command has produced anything yet
NoOutcome == [stdout |-> EmptyStr, stderr |-> EmptyStr, exitCode |-> 0]

\* the three files of an id when the shell starts its line: the redirections
\* have created .out and .err; produced is what the command has produced so
\* far, exitAt when .exit was created
NewSentinels(command) ==
    [out |-> Some(EmptyStr), err |-> Some(EmptyStr), exit |-> None,
     command |-> command, finished |-> FALSE, produced |-> NoOutcome, exitAt |-> 0]

\* the shell reads its next line once the line before has ended; kill %1
\* finds no job of the shell to kill then, and rm -f removes the files
ShellTake ==
    /\ ~shell.some
    /\ term # << >>
    /\ LET line == Head(term)
       IN  /\ term' = Tail(term)
           /\ IF line.kind = "run"
              THEN /\ sentinels' = (line.id :> NewSentinels(line.command)) @@ sentinels
                   /\ shell' = Some([id |-> line.id, phase |-> "command", since |-> now])
              ELSE /\ sentinels' =
                          [id \in DOMAIN sentinels |->
                              IF id = line.id
                              THEN [sentinels[id] EXCEPT !.out = None, !.err = None,
                                                         !.exit = None]
                              ELSE sentinels[id]]
                   /\ shell' = None
    /\ UNCHANGED <<fileVars, useSSHExec, sshHost, _terminalReady, _execCounter>>
    /\ UNCHANGED kindVars
    /\ UNCHANGED lastSet

\* the command ends with outcome o: .out and .err are complete, and the
\* redirection of echo creates .exit
ShellFinish(o) ==
    /\ shell.some
    /\ shell.val.phase = "command"
    /\ sentinels' = [sentinels EXCEPT ![shell.val.id] =
                         [@ EXCEPT !.out = Some(o.stdout), !.err = Some(o.stderr),
                                   !.exit = Some(EmptyStr), !.finished = TRUE,
                                   !.produced = o, !.exitAt = now]]
    /\ shell' = Some([shell.val EXCEPT !.phase = "echo"])
    /\ UNCHANGED <<fileVars, useSSHExec, sshHost, _terminalReady, _execCounter, term>>
    /\ UNCHANGED kindVars
    /\ UNCHANGED lastSet

\* echo writes the exit status into .exit
ShellEcho ==
    /\ shell.some
    /\ shell.val.phase = "echo"
    /\ sentinels' = [sentinels EXCEPT ![shell.val.id] =
                         [@ EXCEPT !.exit =
                             Some(toDigits(sentinels[shell.val.id].produced.exitCode)
                                      \o <<"\n">>)]]
    /\ shell' = None
    /\ UNCHANGED <<fileVars, useSSHExec, sshHost, _terminalReady, _execCounter, term>>
    /\ UNCHANGED kindVars
    /\ UNCHANGED lastSet

\* if (exitStr === "") continue, accepting any content of the exit file
exitReadyAlways(exitStr) == TRUE

\* if (exitStr === "") continue: the exit file holds the status
exitReady(exitStr) == exitStr # EmptyStr

\* await vscode.workspace.fs.readFile of a sentinel file: its content, or a
\* throw (None) when the file does not exist or the read fails
SentinelReads(id, file) ==
    {None} \cup (IF id \in DOMAIN sentinels /\ sentinels[id][file].some
                 THEN {sentinels[id][file]} ELSE {})

----------------------------------------------------------------------------
(* remoteExec, sshExec and execRemoteCommand *)

\* what a step of a call leaves: the call, the lines sent to the terminal
\* and the id counter
Left(c, t, n) == [c |-> c, term |-> t, counter |-> n]

\* the execution ends: it is kept in the log of the call
logged(c) == [c EXCEPT !.log = Append(@, c.ex)]

\* after the loop: the call throws without the abort and the cleanup
timedOutNoCleanup(c, t, n, sent) ==
    Left(handlerCatch(logged([c EXCEPT !.ex.end = "timedOut"]), "TimedOut"), t, n)

\* after the loop: the abort is sent and the call throws; sent tells
\* whether terminal.sendText works in this step
timedOut(c, t, n, sent) ==
    IF sent
    THEN Left(handlerCatch(logged([c EXCEPT !.ex.cleanups = @ + 1, !.ex.end = "timedOut"]),
                           "TimedOut"),
              Append(t, KillLine(c.ex.id)), n)
    ELSE Left(handlerCatch(logged([c EXCEPT !.ex.end = "threw"]),
                           "ChannelFailure"), t, n)

\* while (true): the loop without the test of the time
loopTestForever(c, t, n, sent) ==
    Left([c EXCEPT !.pc = "sleep", !.ex.wakeAt = now + pollInterval], t, n)

\* while (Date.now() - startTime < timeoutMs): the sleep of the next round,
\* or the abort
loopTest(c, t, n, sent) ==
    IF now - c.ex.startTime < c.ex.timeoutMs
    THEN Left([c EXCEPT !.pc = "sleep", !.ex.wakeAt = now + pollInterval], t, n)
    ELSE timedOut(c, t, n, sent)

\* terminal.sendText(fullCmd, true); startTime = Date.now(); the loop
submit(c, t, n, sent) ==
    IF sent
    THEN loopTest([c EXCEPT !.ex.submitted = TRUE, !.ex.startTime = now],
                  Append(t, RunLine(c.ex.id, c.ex.command, c.ex.cwd)), n, sent)
    ELSE Left(handlerCatch(logged([c EXCEPT !.ex.end = "threw"]),
                           "ChannelFailure"), t, n)

\* remoteExec with _execCounter read and not incremented
remoteExecNoIncrement(c, command, cwd, timeoutMs, t, n, sent) ==
    LET c1 == [c EXCEPT !.ex = [NoExec EXCEPT !.via = "terminal",
                                              !.id = <<now, n>>,
                                              !.command = command, !.cwd = cwd,
                                              !.timeoutMs = timeoutMs]]
    IN  IF ~_terminalReady
        THEN Left([c1 EXCEPT !.pc = "ready", !.ex.wakeAt = now + TerminalStartMs], t, n)
        ELSE submit(c1, t, n, sent)

\* remoteExec with an id made of Date.now() alone
remoteExecNoCounter(c, command, cwd, timeoutMs, t, n, sent) ==
    LET c1 == [c EXCEPT !.ex = [NoExec EXCEPT !.via = "terminal",
                                              !.id = <<now, 0>>,
                                              !.command = command, !.cwd = cwd,
                                              !.timeoutMs = timeoutMs]]
    IN  IF ~_terminalReady
        THEN Left([c1 EXCEPT !.pc = "ready", !.ex.wakeAt = now + TerminalStartMs], t, n + 1)
        ELSE submit(c1, t, n + 1, sent)

\* remoteExec from its start to its first await
remoteExec(c, command, cwd, timeoutMs, t, n, sent) ==
    LET c1 == [c EXCEPT !.ex = [NoExec EXCEPT !.via = "terminal",
                                              !.id = <<now, n + 1>>,
                                              !.command = command, !.cwd = cwd,
                                              !.timeoutMs = timeoutMs]]
    IN  IF ~_terminalReady
        THEN Left([c1 EXCEPT !.pc = "ready", !.ex.wakeAt = now + TerminalStartMs], t, n + 1)
        ELSE submit(c1, t, n + 1, sent)

\* 5 * 1024 * 1024
MAX_BUFFER == 5242880

\* the data handlers of sshExec: the length of the text accumulated so far
\* after a chunk of size characters has come
onData(length, size) == IF length < MAX_BUFFER THEN length + size ELSE length

\* sshExec from its start to the events of the subprocess
sshExec(c, command, cwd, timeoutMs, t, n) ==
    Left([c EXCEPT !.pc = "ssh",
                   !.ex = [NoExec EXCEPT !.via = "ssh", !.command = command, !.cwd = cwd,
                                         !.timeoutMs = timeoutMs, !.submitted = TRUE,
                                         !.startTime = now]], t, n)

execRemoteCommand(c, command, cwd, timeoutMs, t, n, sent) ==
    IF useSSHExec
    THEN IF ~sshHost
         THEN Left(handlerCatch(c, "NoSshHost"), t, n)
         ELSE sshExec(c, command, cwd, timeoutMs, t, n)
    ELSE remoteExec(c, command, cwd, timeoutMs, t, n, sent)

----------------------------------------------------------------------------
(* grep and bash: what follows the execution *)

NoMatches == <<"No matches found.">>

CommandNotFound == <<"command not found">>

\* "(no output, exit code N)"
NoOutput(exitCode) == <<"(no output, exit code ">> \o toDigits(exitCode) \o <<")">>

\* rg --color=never --line-number [--glob G] [-C N] [--max-count N] PATTERN
rgCmd(c) ==
    <<"rg --color=never --line-number">>
        \o (IF c.include # EmptyStr THEN <<" --glob ">> \o shellEscape(c.include) ELSE EmptyStr)
        \o (IF c.context # 0 THEN <<" -C ">> \o toDigits(c.context) ELSE EmptyStr)
        \o (IF c.max_results # 0 THEN <<" --max-count ">> \o toDigits(c.max_results) ELSE EmptyStr)
        \o <<" ">> \o shellEscape(c.pattern)

\* grep -rn [--include=G] [-C N] [-m N] PATTERN .
grepCmd(c) ==
    <<"grep -rn">>
        \o (IF c.include # EmptyStr THEN <<" --include=">> \o shellEscape(c.include) ELSE EmptyStr)
        \o (IF c.context # 0 THEN <<" -C ">> \o toDigits(c.context) ELSE EmptyStr)
        \o (IF c.max_results # 0 THEN <<" -m ">> \o toDigits(c.max_results) ELSE EmptyStr)
        \o <<" ">> \o shellEscape(c.pattern) \o <<" .">>

\* bash -c COMMAND
bashCmd(command) == <<"bash -c ">> \o shellEscape(command)

\* the test for the fallback never met
rgAbsentNever(r) == FALSE

\* result.exitCode === 127 || (result.stderr && result.stderr.includes(...))
rgAbsent(r) ==
    r.exitCode = 127 \/ (r.stderr # EmptyStr /\ includes(r.stderr, CommandNotFound))

\* the classification with every exit code other than 0 taken as an error
grepResultStrict(c, r) ==
    IF r.exitCode > 0
    THEN return(c, [Err("GrepError") EXCEPT
                       !.text = IF r.stderr # EmptyStr THEN r.stderr ELSE r.stdout])
    ELSE return(c, Ok("matches", truncateOutput(r.stdout, DefaultMaxChars)))

grepResult(c, r) ==
    IF r.exitCode = 1 /\ r.stdout = EmptyStr
    THEN return(c, Ok("noMatches", NoMatches))
    ELSE IF r.exitCode > 1
         THEN return(c, [Err("GrepError") EXCEPT
                            !.text = IF r.stderr # EmptyStr THEN r.stderr ELSE r.stdout])
         ELSE return(c, Ok("matches", truncateOutput(r.stdout, DefaultMaxChars)))

bashResult(c, r) ==
    LET out1 == r.stdout
        out2 == IF r.stderr # EmptyStr
                THEN out1 \o (IF out1 # EmptyStr THEN <<"\n">> ELSE EmptyStr) \o r.stderr
                ELSE out1
        output == IF out2 = EmptyStr THEN NoOutput(r.exitCode) ELSE out2
    IN  return(c, Ok("output", truncateOutput(output, DefaultMaxChars)))

\* execRemoteCommand resolves with r and the handler goes on
execReturned(c, r, t, n, sent) ==
    LET c1 == logged([c EXCEPT !.ex.end = "returned",
                               !.ex.stdout = r.stdout, !.ex.stderr = r.stderr,
                               !.ex.exitCode = r.exitCode])
    IN  IF c.tool = "bash" THEN Left(bashResult(c1, r), t, n)
        ELSE IF Len(c1.log) = 1 /\ rgAbsent(r)
             THEN execRemoteCommand(c1, grepCmd(c), c.ex.cwd, DefaultTimeoutMs, t, n, sent)
             ELSE Left(grepResult(c1, r), t, n)

\* the step leaves l in slot s
Leave(s, l) ==
    /\ calls' = [calls EXCEPT ![s] = l.c]
    /\ term' = l.term
    /\ _execCounter' = l.counter

\* the timer of the terminal start fires
ExecReady(s) ==
    /\ calls[s].pc = "ready"
    /\ now >= calls[s].ex.wakeAt
    /\ _terminalReady' = TRUE
    /\ \E sent \in BOOLEAN : Leave(s, submit(calls[s], term, _execCounter, sent))
    /\ UNCHANGED <<now, folders, reviewEdit, onFileUpdated, fsDisk, fsView, _writeCache, _editOverride,
                   prev, lastCW, nCalls, useSSHExec, sshHost, shell, sentinels>>
    /\ UNCHANGED kindVars
    /\ UNCHANGED lastSet

\* the timer of a poll fires and the exit file is read
ExecPoll(s) ==
    /\ calls[s].pc = "sleep"
    /\ now >= calls[s].ex.wakeAt
    /\ \E data \in SentinelReads(calls[s].ex.id, "exit"), sent \in BOOLEAN :
           LET c == [calls[s] EXCEPT !.ex.polled = TRUE]
               exitStr == IF data.some THEN trim(data.val) ELSE EmptyStr
               exitCode == parseInt(exitStr)
           IN  IF data.some /\ exitReady(exitStr)
               THEN Leave(s, Left([c EXCEPT !.pc = "out", !.ex.exitStr = Some(exitStr),
                                            !.ex.exitCode = IF exitCode.some
                                                            THEN exitCode.val ELSE 1],
                                   term, _execCounter))
               ELSE Leave(s, loopTest([c EXCEPT !.failed = IF data.some THEN @
                                                           ELSE @ \cup {"PollRead"}],
                                      term, _execCounter, sent))
    /\ UNCHANGED <<now, folders, reviewEdit, onFileUpdated, fsDisk, fsView, _writeCache, _editOverride,
                   prev, lastCW, nCalls, useSSHExec, sshHost, _terminalReady, shell,
                   sentinels>>
    /\ UNCHANGED kindVars
    /\ UNCHANGED lastSet

\* the out file is read; a throw leaves stdout empty
ExecReadOut(s) ==
    /\ calls[s].pc = "out"
    /\ \E data \in SentinelReads(calls[s].ex.id, "out") :
           calls' = [calls EXCEPT ![s] =
               [calls[s] EXCEPT !.pc = "err",
                                !.ex.stdout = IF data.some THEN data.val ELSE EmptyStr,
                                !.ex.outRead = IF data.some THEN "read" ELSE "threw",
                                !.failed = IF data.some THEN @ ELSE @ \cup {"OutputRead"}]]
    /\ UNCHANGED <<now, folders, reviewEdit, onFileUpdated, fsDisk, fsView, _writeCache, _editOverride,
                   prev, lastCW, nCalls, execVars>>
    /\ UNCHANGED kindVars
    /\ UNCHANGED lastSet

\* the err file is read; a throw leaves stderr empty; the cleanup is sent and
\* remoteExec returns, or sendText throws into the catch of the poll
ExecReadErr(s) ==
    /\ calls[s].pc = "err"
    /\ \E data \in SentinelReads(calls[s].ex.id, "err"), sent \in BOOLEAN :
           LET c == [calls[s] EXCEPT
                        !.ex.stderr = IF data.some THEN data.val ELSE EmptyStr,
                        !.ex.errRead = IF data.some THEN "read" ELSE "threw",
                        !.failed = IF data.some THEN @ ELSE @ \cup {"OutputRead"}]
               r == [stdout |-> c.ex.stdout, stderr |-> c.ex.stderr,
                     exitCode |-> c.ex.exitCode]
           IN  IF sent
               THEN Leave(s, execReturned([c EXCEPT !.ex.cleanups = @ + 1], r,
                                          Append(term, RmLine(c.ex.id)), _execCounter, sent))
               ELSE Leave(s, loopTest([c EXCEPT !.failed = @ \cup {"CleanupSend"}],
                                      term, _execCounter, sent))
    /\ UNCHANGED <<now, folders, reviewEdit, onFileUpdated, fsDisk, fsView, _writeCache, _editOverride,
                   prev, lastCW, nCalls, useSSHExec, sshHost, _terminalReady, shell,
                   sentinels>>
    /\ UNCHANGED kindVars
    /\ UNCHANGED lastSet

\* the subprocess of sshExec emits a chunk of size characters on a stream;
\* outLen and errLen are the lengths of the stdout and the stderr that
\* sshExec has accumulated
SshData(s, stream, size) ==
    /\ calls[s].pc = "ssh"
    /\ calls' = [calls EXCEPT ![s].ex =
                    IF stream = "stdout"
                    THEN [@ EXCEPT !.outLen = onData(@, size)]
                    ELSE [@ EXCEPT !.errLen = onData(@, size)]]
    /\ UNCHANGED <<now, folders, reviewEdit, onFileUpdated, fsDisk, fsView, _writeCache,
                   _editOverride, prev, lastCW, nCalls>>
    /\ UNCHANGED execVars
    /\ UNCHANGED kindVars
    /\ UNCHANGED lastSet

\* the subprocess of sshExec closes with outcome o (closedAt keeps the time
\* of the close event), is killed by the timer, or fails to start
SshSettle(s, o, event) ==
    /\ calls[s].pc = "ssh"
    /\ event = "timeout" => now - calls[s].ex.startTime >= calls[s].ex.timeoutMs
    /\ LET c == calls[s]
       IN  CASE event = "close" ->
                    Leave(s, execReturned([c EXCEPT !.ex.closedAt = now], o, term,
                                          _execCounter, TRUE))
             [] event = "timeout" ->
                    Leave(s, Left(handlerCatch(logged([c EXCEPT !.ex.end = "timedOut"]),
                                               "TimedOut"), term, _execCounter))
             [] OTHER ->
                    Leave(s, Left(handlerCatch(logged([c EXCEPT !.ex.end = "threw"]),
                                               "SshFailed"), term, _execCounter))
    /\ UNCHANGED <<now, folders, reviewEdit, onFileUpdated, fsDisk, fsView, _writeCache, _editOverride,
                   prev, lastCW, nCalls, useSSHExec, sshHost, _terminalReady, shell,
                   sentinels>>
    /\ UNCHANGED kindVars
    /\ UNCHANGED lastSet

----------------------------------------------------------------------------
(* glob, grep, bash *)

\* files.map((f) => f.path).sort().join("\n") for the lists findFiles gives
GlobFound == {<< >>, <<"/w/a">>, <<"/w/a", "\n", "/w/b">>}

GlobStart(s, pattern, searchPath) ==
    /\ Free(s)
    /\ nCalls < MaxOps
    /\ nCalls' = nCalls + 1
    /\ prev' = Collect(s)
    /\ LET c0 == [NewCall("glob", searchPath, EmptyStr, EmptyStr, EmptyStr)
                     EXCEPT !.pattern = pattern]
       IN  calls' = [calls EXCEPT ![s] =
               IF getRemoteCwdThrows(folders)
               THEN handlerCatch(c0, "NoWorkspace")
               ELSE [c0 EXCEPT !.pc = "find",
                               !.remotePath = toRemotePath(IF searchPath # EmptyStr
                                                           THEN searchPath ELSE RemoteCwd)]]
    /\ UNCHANGED <<now, folders, reviewEdit, onFileUpdated, fsDisk, fsView, _writeCache, _editOverride,
                   lastCW, execVars>>
    /\ UNCHANGED kindVars
    /\ UNCHANGED lastSet

GlobFind(s) ==
    /\ calls[s].pc = "find"
    /\ \E found \in {None} \cup {Some(paths) : paths \in GlobFound} :
           calls' = [calls EXCEPT ![s] =
               IF ~found.some THEN handlerCatch(calls[s], "IOFailure")
               ELSE IF found.val = << >>
                    THEN return(calls[s], Ok("noFiles", <<"No files found matching pattern.">>))
                    ELSE return(calls[s], Ok("files", found.val))]
    /\ UNCHANGED <<now, folders, reviewEdit, onFileUpdated, fsDisk, fsView, _writeCache, _editOverride,
                   prev, lastCW, nCalls, execVars>>
    /\ UNCHANGED kindVars
    /\ UNCHANGED lastSet

GrepStart(s, pattern, searchPath, include, context, max_results) ==
    /\ Free(s)
    /\ nCalls < MaxOps
    /\ nCalls' = nCalls + 1
    /\ prev' = Collect(s)
    /\ LET c0 == [NewCall("grep", searchPath, EmptyStr, EmptyStr, EmptyStr)
                     EXCEPT !.pattern = pattern, !.include = include,
                            !.context = context, !.max_results = max_results]
       IN  IF getRemoteCwdThrows(folders)
           THEN Leave(s, Left(handlerCatch(c0, "NoWorkspace"), term, _execCounter))
           ELSE \E sent \in BOOLEAN :
                    LET cwd == toRemotePath(IF searchPath # EmptyStr
                                            THEN searchPath ELSE RemoteCwd)
                    IN  Leave(s, execRemoteCommand([c0 EXCEPT !.remotePath = cwd], rgCmd(c0),
                                                   cwd, DefaultTimeoutMs, term,
                                                   _execCounter, sent))
    /\ UNCHANGED <<now, folders, reviewEdit, onFileUpdated, fsDisk, fsView, _writeCache, _editOverride,
                   lastCW, useSSHExec, sshHost, _terminalReady, shell, sentinels>>
    /\ UNCHANGED kindVars
    /\ UNCHANGED lastSet

BashStart(s, command, cwd, timeout) ==
    /\ Free(s)
    /\ nCalls < MaxOps
    /\ nCalls' = nCalls + 1
    /\ prev' = Collect(s)
    /\ LET c0 == [NewCall("bash", cwd, EmptyStr, EmptyStr, EmptyStr)
                     EXCEPT !.command = command, !.timeout = timeout]
       IN  IF getRemoteCwdThrows(folders)
           THEN Leave(s, Left(handlerCatch(c0, "NoWorkspace"), term, _execCounter))
           ELSE \E sent \in BOOLEAN :
                    LET remoteCwd == toRemotePath(IF cwd # EmptyStr THEN cwd ELSE RemoteCwd)
                        timeoutMs == IF timeout # 0 THEN timeout ELSE DefaultTimeoutMs
                    IN  Leave(s, execRemoteCommand([c0 EXCEPT !.remotePath = remoteCwd],
                                                   bashCmd(command), remoteCwd, timeoutMs,
                                                   term, _execCounter, sent))
    /\ UNCHANGED <<now, folders, reviewEdit, onFileUpdated, fsDisk, fsView, _writeCache, _editOverride,
                   lastCW, useSSHExec, sshHost, _terminalReady, shell, sentinels>>
    /\ UNCHANGED kindVars
    /\ UNCHANGED lastSet

----------------------------------------------------------------------------
(* The sync of extensionKind *)

\* the values a setting or a property of vscode.env may have: undefined, or
\* a string
Undefined == None

\* if (v): v is a string and not the empty one
truthy(v) == v.some /\ v.val # EmptyStr

\* the values of extensionKind in package.json: undefined (the key is
\* missing), null, or an array of strings
NoKind(type) == [type |-> type, items |-> << >>]

KindOf(items) == [type |-> "array", items |-> items]

UiFirst == KindOf(<<"ui", "workspace">>)

WorkspaceFirst == KindOf(<<"workspace", "ui">>)

\* the syncs followed under one value of forceLocal
MaxSyncs == 3

\* the elements of an array of strings as JSON.stringify writes them; "dq"
\* stands for the double quote
RECURSIVE jsonElements(_)
jsonElements(items) ==
    IF items = << >> THEN EmptyStr
    ELSE <<"dq", Head(items), "dq">>
             \o (IF Len(items) > 1 THEN <<",">> ELSE EmptyStr)
             \o jsonElements(Tail(items))

\* JSON.stringify(kind): undefined for undefined, else a text
jsonStringify(kind) ==
    CASE kind.type = "undefined" -> Undefined
      [] kind.type = "null" -> Some(<<"null">>)
      [] OTHER -> Some(<<"[">> \o jsonElements(kind.items) \o <<"]">>)

\* the desired kind as it was before isRemote was looked at
computeDesiredExtensionKindOld(fl, isRemote) ==
    IF fl THEN UiFirst ELSE WorkspaceFirst

computeDesiredExtensionKind(fl, isRemote) ==
    IF ~isRemote THEN UiFirst
    ELSE IF fl THEN UiFirst ELSE WorkspaceFirst

\* the comparison of the two arrays themselves: two arrays are never the
\* same object
shouldPromptReloadByIdentity(currentKind, desiredKind) ==
    TRUE

shouldPromptReload(currentKind, desiredKind) ==
    jsonStringify(currentKind) # jsonStringify(desiredKind)

\* JSON.parse of the text of an extensionKind
jsonParse(text) ==
    IF text = <<"null">> THEN NoKind("null")
    ELSE KindOf([k \in 1..((Len(text) - 1) \div 4) |-> text[4 * k - 1]])

\* readExtensionKind() after writeExtensionKind(newKind): the key is
\* written as JSON.stringify gives it (left out when undefined) and parsed
\* again
writeExtensionKind(newKind) ==
    LET text == jsonStringify(newKind)
    IN  IF text = Undefined THEN NoKind("undefined") ELSE jsonParse(text.val)

\* the test of the settings against undefined only: an empty string counts
\* as set
isRemoteEnvDefined(e) ==
    \/ e.remoteAuthority.some
    \/ e.remoteName.some
    \/ e.sshHost.some
    \/ (e.folderScheme.some /\ e.folderScheme.val # <<"file">>)

isRemoteEnv(e) ==
    IF truthy(e.remoteAuthority) THEN TRUE
    ELSE IF truthy(e.remoteName) THEN TRUE
    ELSE IF truthy(e.sshHost) THEN TRUE
    ELSE IF truthy(e.folderScheme) /\ e.folderScheme.val # <<"file">> THEN TRUE
    ELSE FALSE

\* simulateSync({ forceLocal, isRemote, currentExtensionKind }) with
\* isRemote as isRemoteEnv gives it
\* isRemote as isRemoteEnv gives it; current, nth and prompts are for the
\* record: the kind the sync found installed, the number of syncs since
\* forceLocal last changed, and how many of them prompted a reload
simulateSync(fl, e, currentExtensionKind) ==
    LET isRemote == isRemoteEnv(e)
        desired == computeDesiredExtensionKind(fl, isRemote)
        needsReload == shouldPromptReload(currentExtensionKind, desired)
    IN  [isRemote |-> isRemote, desired |-> desired,
         needsReload |-> needsReload,
         current |-> currentExtensionKind,
         nth |-> IF sync.some THEN sync.val.nth + 1 ELSE 1,
         prompts |-> (IF sync.some THEN sync.val.prompts ELSE 0)
                         + (IF needsReload THEN 1 ELSE 0)]

\* the sync runs: when the installed kind is not the desired one it writes
\* the desired one to package.json and prompts a reload
Sync ==
    /\ sync.some => sync.val.nth < MaxSyncs
    /\ LET r == simulateSync(forceLocal, env, extensionKind)
       IN  /\ sync' = Some(r)
           /\ extensionKind' = IF r.needsReload THEN writeExtensionKind(r.desired)
                                ELSE extensionKind
    /\ UNCHANGED <<fileVars, execVars, env, forceLocal>>

\* the user changes claudeCode.forceLocal
SetForceLocal(fl) ==
    /\ forceLocal # fl
    /\ forceLocal' = fl
    /\ sync' = None
    /\ UNCHANGED <<fileVars, execVars, env, extensionKind>>

\* a local window, forceLocal off, the extension as installed
KindIdle ==
    /\ env = [remoteAuthority |-> Undefined, remoteName |-> Undefined,
              folderScheme |-> Some(<<"file">>), sshHost |-> Some(EmptyStr)]
    /\ forceLocal = FALSE
    /\ extensionKind = UiFirst
    /\ sync = None

----------------------------------------------------------------------------
(* The environment of the file handlers *)

\* the bridge is still in use: a call is under way or another one can be made
InUse == nCalls < MaxOps \/ \E s \in Slots : ~Free(s)

\* time passes
Tick(d, until) ==
    /\ InUse
    /\ now + d <= until
    /\ now' = now + d
    /\ UNCHANGED <<folders, reviewEdit, onFileUpdated, fsDisk, fsView, _writeCache,
                   _editOverride, calls, prev, lastCW, nCalls>>
    /\ UNCHANGED execVars
    /\ UNCHANGED kindVars
    /\ UNCHANGED lastSet

\* a call waits for a timer: the start of the terminal, the next poll, or
\* the timeout of the ssh subprocess
OnTimer(s) == calls[s].pc \in {"ready", "sleep", "ssh"}

\* time passes while a call waits for a timer
Tock(d, until) ==
    /\ \E s \in Slots : OnTimer(s)
    /\ now + d <= until
    /\ now' = now + d
    /\ UNCHANGED <<folders, reviewEdit, onFileUpdated, fsDisk, fsView, _writeCache,
                   _editOverride, calls, prev, lastCW, nCalls>>
    /\ UNCHANGED execVars
    /\ UNCHANGED kindVars
    /\ UNCHANGED lastSet

\* the remote file primitive catches up with the remote file
FsSync(remotePath) ==
    /\ InUse
    /\ fsView[remotePath] # fsDisk[remotePath]
    /\ fsView' = [fsView EXCEPT ![remotePath] = fsDisk[remotePath]]
    /\ UNCHANGED <<now, folders, reviewEdit, onFileUpdated, fsDisk, _writeCache,
                   _editOverride, calls, prev, lastCW, nCalls>>
    /\ UNCHANGED execVars
    /\ UNCHANGED kindVars
    /\ UNCHANGED lastSet

\* setEditOverride called only when the mailbox is empty: an override that
\* is there is kept
SetOverrideIfEmpty(remotePath, content) ==
    /\ InUse
    /\ _editOverride' = IF _editOverride # None THEN _editOverride
                        ELSE setEditOverride(remotePath, content, now)
    /\ UNCHANGED <<now, folders, reviewEdit, onFileUpdated, fsDisk, fsView, _writeCache,
                   calls, prev, lastCW, nCalls>>
    /\ UNCHANGED execVars
    /\ UNCHANGED kindVars

\* the reviewer accepted a modified diff: setEditOverride(remotePath, content)
SetOverride(remotePath, content) ==
    /\ InUse
    /\ _editOverride' = setEditOverride(remotePath, content, now)
    /\ UNCHANGED <<now, folders, reviewEdit, onFileUpdated, fsDisk, fsView, _writeCache,
                   calls, prev, lastCW, nCalls>>
    /\ UNCHANGED execVars
    /\ UNCHANGED kindVars

----------------------------------------------------------------------------
(* The file handlers, one call at a time *)

PathA == <<"/", "a">>

PathB == <<"/", "b">>

FilePaths == {PathA, PathB}

RemotePaths == {toRemotePath(f) : f \in FilePaths}

\* the calls the agent makes: <<file_path, content>> and
\* <<file_path, old_string, new_string>>
WriteRequests == {<<PathA, EmptyStr>>, <<PathB, <<"a">>>>}

EditRequests == {<<PathA, <<"a">>, <<"b">>>>}

OverrideContents == {<<"b">>}

\* the executor before its first command
ExecIdle ==
    /\ useSSHExec = FALSE
    /\ sshHost = TRUE
    /\ _terminalReady = FALSE
    /\ _execCounter = 0
    /\ term = << >>
    /\ shell = None
    /\ sentinels = << >>

Init ==
    /\ now = 0
    /\ folders \in BOOLEAN
    /\ reviewEdit \in BOOLEAN
    /\ onFileUpdated \in BOOLEAN
    /\ fsDisk = [p \in RemotePaths |->
                     IF p = toRemotePath(PathA) THEN Some(<<"a">>) ELSE None]
    /\ fsView = fsDisk
    /\ _writeCache = [p \in RemotePaths |-> None]
    /\ _editOverride = None
    /\ calls = [s \in Slots |-> IdleCall]
    /\ prev = NoPrev
    /\ lastCW = [p \in RemotePaths |-> None]
    /\ nCalls = 0
    /\ lastSet = None
    /\ ExecIdle
    /\ KindIdle

Steps(s) ==
    \/ ReadFileRead(s)
    \/ WriteFileOvRead(s)
    \/ WriteFileOvWrite(s)
    \/ WriteFileRead(s)
    \/ WriteFileReview(s)
    \/ WriteFileWrite(s)
    \/ EditFileOvRead(s)
    \/ EditFileOvWrite(s)
    \/ EditFileRead(s)
    \/ EditFileReview(s)
    \/ EditFileWrite(s)

Next ==
    \/ \E f \in FilePaths : ReadFileStart(1, f)
    \/ \E r \in WriteRequests : WriteFileStart(1, r[1], r[2])
    \/ \E r \in EditRequests : EditFileStart(1, r[1], r[2], r[3])
    \/ Steps(1)
    \/ Tick(FileTick, MaxTime)
    \/ \E p \in RemotePaths : FsSync(p)
    \/ \E p \in RemotePaths, content \in OverrideContents :
           SetOverride(p, content) /\ UNCHANGED lastSet

Spec == Init /\ [][Next]_vars

----------------------------------------------------------------------------
(* The mailbox with each setEditOverride followed *)

\* setEditOverride(remotePath, content) with what it found in the mailbox
\* put on record
FollowedOverride(remotePath, content) ==
    /\ SetOverride(remotePath, content)
    /\ lastSet' = Some([found |-> _editOverride, remotePath |-> remotePath, at |-> now])

InitMailbox ==
    /\ Init
    /\ folders
    /\ ~reviewEdit
    /\ onFileUpdated

\* the steps of write_file and edit_file without a review gate
MailboxSteps(s) ==
    \/ WriteFileOvRead(s)
    \/ WriteFileOvWrite(s)
    \/ WriteFileRead(s)
    \/ WriteFileWrite(s)
    \/ EditFileOvRead(s)
    \/ EditFileOvWrite(s)
    \/ EditFileRead(s)
    \/ EditFileWrite(s)

NextMailbox ==
    \/ \E r \in WriteRequests : WriteFileStart(1, r[1], r[2])
    \/ \E r \in EditRequests : EditFileStart(1, r[1], r[2], r[3])
    \/ MailboxSteps(1)
    \/ Tick(FileTick, MaxTime)
    \/ \E p \in RemotePaths, content \in OverrideContents : FollowedOverride(p, content)

SpecMailbox == InitMailbox /\ [][NextMailbox]_vars

----------------------------------------------------------------------------
(* edit_file on every short content, with every short anchor *)

\* the strings of at most n characters over an alphabet
Strings(alphabet, n) == UNION {[1..k -> alphabet] : k \in 0..n}

EditContents == Strings({"a", "b"}, MaxLen)

\* the replacements asked for: a letter, and texts with a dollar sign
NewStrings == {<<"c">>, <<"$", "&">>, <<"$", "$">>}

\* <<old_string, new_string>>
AnchorRequests ==
    (Strings({"a", "b"}, MaxLen - 1) \ {EmptyStr}) \X NewStrings

InitEdit ==
    /\ now = 0
    /\ folders = TRUE
    /\ reviewEdit \in BOOLEAN
    /\ onFileUpdated = TRUE
    /\ \E content \in EditContents :
           fsDisk = [p \in RemotePaths |->
                        IF p = toRemotePath(PathA) THEN Some(content) ELSE None]
    /\ fsView = fsDisk
    /\ _writeCache = [p \in RemotePaths |-> None]
    /\ _editOverride = None
    /\ calls = [s \in Slots |-> IdleCall]
    /\ prev = NoPrev
    /\ lastCW = [p \in RemotePaths |-> None]
    /\ nCalls = 0
    /\ lastSet = None
    /\ ExecIdle
    /\ KindIdle

NextEdit ==
    \/ \E r \in AnchorRequests : EditFileStart(1, PathA, r[1], r[2])
    \/ EditFileRead(1)
    \/ EditFileReview(1)
    \/ EditFileWrite(1)

SpecEdit == InitEdit /\ [][NextEdit]_vars

----------------------------------------------------------------------------
(* Two calls of write_file or edit_file on one path at a time *)

\* the content of the file the calls work on
OverlapContent == <<"a", "b">>

\* slot -> <<old_string, new_string>> of its edit_file
OverlapEdits == <<<<<<"a">>, <<"c">>>>, <<<<"b">>, <<"d">>>>>>

\* slot -> content of its write_file
OverlapWrites == <<<<"c">>, <<"d">>>>

InitOverlap ==
    /\ now = 0
    /\ folders = TRUE
    /\ reviewEdit \in BOOLEAN
    /\ onFileUpdated = TRUE
    /\ fsDisk = [p \in RemotePaths |->
                     IF p = toRemotePath(PathA) THEN Some(OverlapContent) ELSE None]
    /\ fsView = fsDisk
    /\ _writeCache = [p \in RemotePaths |-> None]
    /\ _editOverride = None
    /\ calls = [s \in Slots |-> IdleCall]
    /\ prev = NoPrev
    /\ lastCW = [p \in RemotePaths |-> None]
    /\ nCalls = 0
    /\ lastSet = None
    /\ ExecIdle
    /\ KindIdle

\* the agent makes the one call of slot s without awaiting the other
OverlapStart(s) ==
    /\ calls[s].pc = "idle"
    /\ \/ EditFileStart(s, PathA, OverlapEdits[s][1], OverlapEdits[s][2])
       \/ WriteFileStart(s, PathA, OverlapWrites[s])

\* await vscode.workspace.fs.writeFile(uri, ...) up to the remote host: the
\* host stores the content, or the write fails and the handler catches it
StoreWrite(s) ==
    /\ calls[s].tool \in {"write_file", "edit_file"}
    /\ calls[s].pc = "write"
    /\ LET c == calls[s]
       IN  \E ok \in BOOLEAN :
               IF ok
               THEN /\ fsDisk' = [fsDisk EXCEPT ![c.remotePath] = Some(c.final)]
                    /\ calls' = [calls EXCEPT ![s] =
                                     [c EXCEPT !.wrote = Some(c.final), !.pc = "stored"]]
               ELSE /\ calls' = [calls EXCEPT ![s] = handlerCatch(c, "IOFailure")]
                    /\ UNCHANGED fsDisk
    /\ UNCHANGED <<now, folders, reviewEdit, onFileUpdated, fsView, _writeCache,
                   _editOverride, prev, lastCW, nCalls>>
    /\ UNCHANGED execVars
    /\ UNCHANGED kindVars
    /\ UNCHANGED lastSet

\* the promise of writeFile resolves and the handler goes on: cacheWrite,
\* onFileUpdated, return
ResolveWrite(s) ==
    /\ calls[s].pc = "stored"
    /\ LET c == calls[s]
       IN  /\ _writeCache' = cacheWrite(_writeCache, c.remotePath, c.final, now)
           /\ lastCW' = [lastCW EXCEPT ![c.remotePath] =
                             Some([content |-> c.final, timestamp |-> now])]
           /\ calls' = [calls EXCEPT ![s] =
                  return(IF onFileUpdated
                         THEN [c EXCEPT !.notified = c.notified + 1,
                                        !.note = Some(<<c.oldText, c.final>>)]
                         ELSE c,
                         Ok(IF c.tool = "edit_file" THEN "edited" ELSE "wrote", EmptyStr))]
    /\ UNCHANGED <<now, folders, reviewEdit, onFileUpdated, fsDisk, fsView, _editOverride,
                   prev, nCalls>>
    /\ UNCHANGED execVars
    /\ UNCHANGED kindVars
    /\ UNCHANGED lastSet

OverlapSteps(s) ==
    \/ WriteFileRead(s)
    \/ WriteFileReview(s)
    \/ EditFileRead(s)
    \/ EditFileReview(s)
    \/ StoreWrite(s)
    \/ ResolveWrite(s)

NextOverlap ==
    \/ \E s \in Slots : OverlapStart(s)
    \/ \E s \in Slots : OverlapSteps(s)
    \/ FsSync(toRemotePath(PathA))

SpecOverlap == InitOverlap /\ [][NextOverlap]_vars

----------------------------------------------------------------------------
(* Claims on the write cache and the edit override *)

\* the age of the last cacheWrite for the call's path when the call looked it up
LookAge(c) == c.look.at - c.look.entry.val.timestamp

\* the age of the stored override when the call consumed
OverrideAge(c) == c.cons.at - c.cons.before.val.timestamp

\* the call in slot 1 is a read_file that directly follows a successful
\* write_file of the same path and looked the cache up within the TTL
ReadFollowsWrite ==
    LET c == calls[1]
    IN  /\ c.pc = "done"
        /\ c.tool = "read_file"
        /\ prev.tool = "write_file"
        /\ ~prev.isError
        /\ prev.remotePath = c.remotePath
        /\ c.look.done
        /\ c.look.entry.some
        /\ LookAge(c) <= WRITE_CACHE_TTL

\* C1 as stated: after write_file(P, C) succeeded, the read_file(P) that
\* directly follows it within the cache TTL returns C
C1_ReadReturnsRequested ==
    ReadFollowsWrite =>
        /\ ~calls[1].res.isError
        /\ calls[1].res.text = prev.content

\* C1 amended: after write_file(P, C) succeeded, the read_file(P) that
\* directly follows it within the cache TTL returns the content write_file
\* stored in P, whatever a live read would return: C when no override was
\* pending and no review gate was asked, else the override content or the
\* content the gate returned
C1_ReadReturnsWritten ==
    ReadFollowsWrite =>
        /\ ~calls[1].res.isError
        /\ prev.wrote.some
        /\ calls[1].res.text = prev.wrote.val
        /\ ~calls[1].liveRead
        /\ (~prev.usedOv /\ ~prev.gate => calls[1].res.text = prev.content)

\* the read returned the written content while the remote file primitive
\* still held other bytes, and the written content was not the requested one
C1_Witness ==
    /\ ReadFollowsWrite
    /\ calls[1].res.text = prev.wrote.val
    /\ prev.wrote.val # prev.content
    /\ fsView[calls[1].remotePath] # prev.wrote

\* C2 as stated: a handler that finds a cache entry younger than the TTL
\* for its path takes the content from it and issues no live read of the path
C2_CacheFirst ==
    \A s \in Slots :
        LET c == calls[s]
        IN  (/\ c.look.done
             /\ c.look.entry.some
             /\ LookAge(c) < WRITE_CACHE_TTL)
            => /\ ~c.liveRead
               /\ c.pc \notin {"read", "ovRead"}
               /\ (c.tool \in {"write_file", "edit_file"}
                      => c.oldText = c.look.entry.val.content)
               /\ (c.tool = "read_file"
                      => c.res = Ok("text", c.look.entry.val.content))

\* C3: getCachedWrite returns the content of the last cacheWrite while the
\* entry is younger than the TTL; once its age exceeds the TTL it returns
\* null, the entry is gone and the handler reads the file live; cached
\* content older than the TTL is never returned
C3_CacheTTL ==
    \A s \in Slots :
        LET c == calls[s]
        IN  c.look.done =>
                IF c.look.entry.some
                THEN /\ LookAge(c) < WRITE_CACHE_TTL
                            => c.look.ret = Some(c.look.entry.val.content)
                     /\ LookAge(c) > WRITE_CACHE_TTL
                            => /\ c.look.ret = None
                               /\ c.look.removed
                               /\ c.pc \in {"read", "ovRead"} \/ c.liveRead
                     /\ c.look.ret.some => LookAge(c) <= WRITE_CACHE_TTL
                ELSE c.look.ret = None

\* a read_file found the entry older than the TTL and returned live content
C3_Witness ==
    \E s \in Slots :
        LET c == calls[s]
        IN  /\ c.tool = "read_file"
            /\ c.pc = "done"
            /\ c.look.entry.some
            /\ LookAge(c) > WRITE_CACHE_TTL
            /\ c.liveRead
            /\ ~c.res.isError
            /\ c.res.text # c.look.entry.val.content

\* the call consumed while an override for its own path was within the TTL
OverridePending(c) ==
    /\ c.cons.done
    /\ c.cons.before.some
    /\ c.cons.before.val.remotePath = c.remotePath
    /\ OverrideAge(c) < EDIT_OVERRIDE_TTL

\* a write or edit that went the normal way: the gate is asked exactly when
\* one is configured, and what is written is the gate's content, or the
\* handler's own when there is no gate
NormalFlow(c) ==
    /\ ~c.ov.some
    /\ c.pc \notin {"ovRead", "ovWrite"}
    /\ c.gate => reviewEdit
    /\ (c.pc = "done" /\ ~c.res.isError)
          => /\ c.gate <=> reviewEdit
             /\ c.wrote = Some(c.final)
             /\ ~c.gate => c.final = c.proposed
             /\ (c.tool = "write_file" => c.proposed = c.content)

\* C4: with an override O for P within its TTL, the next write_file or
\* edit_file on P writes O, not its own content, does not ask the review
\* gate and leaves the mailbox empty; the write to P after it, with no new
\* override, goes the normal way
C4_OverridePrecedence ==
    \A s \in Slots :
        LET c == calls[s]
        IN  /\ OverridePending(c)
               => /\ c.ov = Some(c.cons.before.val.content)
                  /\ c.cons.after = None
                  /\ ~c.gate
                  /\ c.pc \notin {"read", "review", "write"}
                  /\ c.wrote.some => c.wrote = c.ov
                  /\ (c.pc = "done" /\ ~c.res.isError) => c.wrote = c.ov
            /\ (/\ c.cons.done
                /\ prev.usedOv
                /\ prev.remotePath = c.remotePath
                /\ c.cons.before = prev.ovLeft)
               => /\ prev.ovLeft = None
                  /\ NormalFlow(c)

\* a write_file wrote its own content where the call before, on the same
\* path, had written an override instead of its own
C4_Witness ==
    LET c == calls[1]
    IN  /\ c.pc = "done"
        /\ c.tool = "write_file"
        /\ ~c.res.isError
        /\ ~c.gate
        /\ c.wrote = Some(c.content)
        /\ prev.usedOv
        /\ ~prev.isError
        /\ prev.remotePath = c.remotePath
        /\ prev.wrote.some
        /\ prev.wrote.val # prev.content
        /\ fsDisk[c.remotePath] = c.wrote

\* C5: consumeEditOverride for path A with an override for another path B
\* pending returns null and leaves the override as it is, and the next
\* write or edit on B within the TTL applies it
C5_OtherPathKept ==
    \A s \in Slots :
        LET c == calls[s]
        IN  /\ (/\ c.cons.done
                /\ c.cons.before.some
                /\ c.cons.before.val.remotePath # c.remotePath
                /\ OverrideAge(c) < EDIT_OVERRIDE_TTL)
               => /\ c.cons.ret = None
                  /\ c.cons.after = c.cons.before
                  /\ NormalFlow(c)
            /\ (/\ prev.sawOther
                /\ c.cons.done
                /\ c.cons.before = prev.ovLeft
                /\ OverridePending(c))
               => /\ c.ov = Some(prev.ovLeft.val.content)
                  /\ (c.pc = "done" /\ ~c.res.isError) => c.wrote = c.ov

\* a call on B wrote the override that a call on A had found and left
C5_Witness ==
    LET c == calls[1]
    IN  /\ prev.sawOther
        /\ prev.ovLeft.some
        /\ c.cons.done
        /\ c.cons.before = prev.ovLeft
        /\ c.remotePath # prev.remotePath
        /\ c.pc = "done"
        /\ ~c.res.isError
        /\ c.wrote = Some(prev.ovLeft.val.content)

\* C6: an override whose age has reached the TTL is never applied:
\* consumeEditOverride returns null and clears the mailbox, for the
\* matching path too, and the handler goes the normal way
C6_ExpiredOverride ==
    \A s \in Slots :
        LET c == calls[s]
        IN  (/\ c.cons.done
             /\ c.cons.before.some
             /\ OverrideAge(c) >= EDIT_OVERRIDE_TTL)
            => /\ c.cons.ret = None
               /\ c.cons.after = None
               /\ NormalFlow(c)

\* a write to the override's own path, made when the override was exactly
\* TTL old, passed the review gate and wrote other content than the override
C6_Witness ==
    \E s \in Slots :
        LET c == calls[s]
        IN  /\ c.cons.done
            /\ c.cons.before.some
            /\ c.cons.before.val.remotePath = c.remotePath
            /\ OverrideAge(c) = EDIT_OVERRIDE_TTL
            /\ c.pc = "done"
            /\ ~c.res.isError
            /\ c.gate
            /\ c.wrote.some
            /\ c.wrote.val # c.cons.before.val.content

----------------------------------------------------------------------------
(* bash over the hidden terminal, one call at a time *)

\* <<command, cwd, timeout>>
BashRequests == {<<<<"x">>, EmptyStr, 400>>}

\* what a command may produce
Outcomes == {[stdout |-> <<"a">>, stderr |-> <<"b">>, exitCode |-> 2]}

InitExec ==
    /\ now = 0
    /\ folders = TRUE
    /\ reviewEdit = FALSE
    /\ onFileUpdated = TRUE
    /\ fsDisk = [p \in RemotePaths |-> None]
    /\ fsView = fsDisk
    /\ _writeCache = [p \in RemotePaths |-> None]
    /\ _editOverride = None
    /\ calls = [s \in Slots |-> IdleCall]
    /\ prev = NoPrev
    /\ lastCW = [p \in RemotePaths |-> None]
    /\ nCalls = 0
    /\ lastSet = None
    /\ ExecIdle
    /\ KindIdle

ExecSteps(s) ==
    \/ ExecReady(s)
    \/ ExecPoll(s)
    \/ ExecReadOut(s)
    \/ ExecReadErr(s)

NextExec ==
    \/ \E r \in BashRequests : BashStart(1, r[1], r[2], r[3])
    \/ ExecSteps(1)
    \/ ShellTake
    \/ \E o \in Outcomes : ShellFinish(o)
    \/ ShellEcho
    \/ Tock(PollTick, MaxExecTime)

SpecExec == InitExec /\ [][NextExec]_vars

----------------------------------------------------------------------------
(* glob on every short path, relative, absolute or below the local root *)

MaxPathLen == 3

\* the paths of at most MaxPathLen characters, and each of them appended
\* to the local working root
PathInputs ==
    LET short == Strings({"/", ".", "x"}, MaxPathLen)
    IN  short \cup {getLocalCwd \o p : p \in short}

NextPath ==
    \/ \E p \in PathInputs : GlobStart(1, <<"*">>, p)
    \/ GlobFind(1)

SpecPath == InitExec /\ [][NextPath]_vars

----------------------------------------------------------------------------
(* read_file on files of about 30,000 characters *)

TruncSpan == 4

\* a text of n characters, the character at each place telling the place
LongText(n) == [i \in 1..n |-> Digits[(i % 10) + 1]]

\* the lengths around the budget of truncateOutput, and twice the budget
TruncLengths ==
    ((DefaultMaxChars - TruncSpan)..(DefaultMaxChars + TruncSpan)) \cup {2 * DefaultMaxChars}

InitTrunc ==
    /\ now = 0
    /\ folders = TRUE
    /\ reviewEdit = FALSE
    /\ onFileUpdated = TRUE
    /\ \E n \in TruncLengths :
           fsDisk = [p \in RemotePaths |->
                        IF p = toRemotePath(PathA) THEN Some(LongText(n)) ELSE None]
    /\ fsView = fsDisk
    /\ _writeCache = [p \in RemotePaths |-> None]
    /\ _editOverride = None
    /\ calls = [s \in Slots |-> IdleCall]
    /\ prev = NoPrev
    /\ lastCW = [p \in RemotePaths |-> None]
    /\ nCalls = 0
    /\ lastSet = None
    /\ ExecIdle
    /\ KindIdle

NextTrunc ==
    \/ ReadFileStart(1, PathA)
    \/ ReadFileRead(1)
    \/ Tick(FileTick, MaxTime)

SpecTrunc == InitTrunc /\ [][NextTrunc]_vars

----------------------------------------------------------------------------
(* The sync of extensionKind in every environment *)

\* undefined, the empty string, or a name
Settings == {Undefined, Some(EmptyStr), Some(<<"x">>)}

\* the scheme of the first workspace folder: undefined when no folder is
\* open
FolderSchemes == {Undefined, Some(<<"file">>), Some(<<"vscode-remote">>)}

Environments ==
    [remoteAuthority : Settings, remoteName : Settings,
     folderScheme : FolderSchemes, sshHost : Settings]

InstalledKinds ==
    {NoKind("undefined"), NoKind("null"), UiFirst, WorkspaceFirst,
     KindOf(<<"ui">>), KindOf(<<"workspace">>), KindOf(<< >>)}

InitKind ==
    /\ now = 0
    /\ folders = TRUE
    /\ reviewEdit = FALSE
    /\ onFileUpdated = TRUE
    /\ fsDisk = [p \in RemotePaths |-> None]
    /\ fsView = fsDisk
    /\ _writeCache = [p \in RemotePaths |-> None]
    /\ _editOverride = None
    /\ calls = [s \in Slots |-> IdleCall]
    /\ prev = NoPrev
    /\ lastCW = [p \in RemotePaths |-> None]
    /\ nCalls = 0
    /\ lastSet = None
    /\ useSSHExec = FALSE
    /\ sshHost = TRUE
    /\ _terminalReady = FALSE
    /\ _execCounter = 0
    /\ term = << >>
    /\ shell = None
    /\ sentinels = << >>
    /\ env \in Environments
    /\ forceLocal \in BOOLEAN
    /\ extensionKind \in InstalledKinds
    /\ sync = None

NextKind ==
    \/ Sync
    \/ \E fl \in BOOLEAN : SetForceLocal(fl)

SpecKind == InitKind /\ [][NextKind]_vars

----------------------------------------------------------------------------
(* The executor with its timers firing *)

\* the time followed
LiveMaxTime == 2000

\* the longest a call with timeout timeoutMs takes: the start of the
\* terminal and the polls up to the first one past the timeout
Horizon(timeoutMs) ==
    TerminalStartMs + ((timeoutMs + pollInterval - 1) \div pollInterval) * pollInterval

InitLive ==
    /\ now = 0
    /\ folders = TRUE
    /\ reviewEdit = FALSE
    /\ onFileUpdated = TRUE
    /\ fsDisk = [p \in RemotePaths |-> None]
    /\ fsView = fsDisk
    /\ _writeCache = [p \in RemotePaths |-> None]
    /\ _editOverride = None
    /\ calls = [s \in Slots |-> IdleCall]
    /\ prev = NoPrev
    /\ lastCW = [p \in RemotePaths |-> None]
    /\ nCalls = 0
    /\ lastSet = None
    /\ useSSHExec \in BOOLEAN
    /\ sshHost = TRUE
    /\ _terminalReady = FALSE
    /\ _execCounter = 0
    /\ term = << >>
    /\ shell = None
    /\ sentinels = << >>
    /\ KindIdle

\* a bash call made while the time followed leaves room for its timeout
LiveStart(command, cwd, timeout) ==
    /\ now + Horizon(timeout) <= LiveMaxTime
    /\ BashStart(1, command, cwd, timeout)

\* the timer of sshExec fires: the subprocess is killed and closes
SshTimeout(s) == \E o \in Outcomes : SshSettle(s, o, "timeout")

\* the subprocess closes by itself or fails to start
SshEnd(s) == \E o \in Outcomes, event \in {"close", "error"} : SshSettle(s, o, event)

\* the timer call s waits for is due
Due(s) ==
    \/ calls[s].pc \in {"ready", "sleep"} /\ now >= calls[s].ex.wakeAt
    \/ calls[s].pc = "ssh" /\ now - calls[s].ex.startTime >= calls[s].ex.timeoutMs

\* time passes up to the next timer: a timer that is due fires before more
\* time passes
LiveTock ==
    /\ \A s \in Slots : ~Due(s)
    /\ Tock(PollTick, LiveMaxTime)

NextLive ==
    \/ \E r \in BashRequests : LiveStart(r[1], r[2], r[3])
    \/ ExecSteps(1)
    \/ SshTimeout(1)
    \/ SshEnd(1)
    \/ ShellTake
    \/ \E o \in Outcomes : ShellFinish(o)
    \/ ShellEcho
    \/ LiveTock

\* time passes, the timers fire and the remote file primitive answers each
\* read; a killed subprocess closes; a command need not end
SpecLive ==
    /\ InitLive
    /\ [][NextLive]_vars
    /\ WF_vars(LiveTock)
    /\ WF_vars(ExecSteps(1))
    /\ WF_vars(SshTimeout(1))

----------------------------------------------------------------------------
(* The ssh subprocess with the chunks of its output *)

MaxChunk == 2097152

\* the sizes of the chunks a stream delivers
ChunkSizes == {MaxChunk - 1, MaxChunk}

InitBuffer ==
    /\ InitLive
    /\ useSSHExec = TRUE

NextBuffer ==
    \/ \E r \in BashRequests : BashStart(1, r[1], r[2], r[3])
    \/ \E size \in ChunkSizes : SshData(1, "stdout", size)
    \/ \E size \in ChunkSizes : SshData(1, "stderr", size)
    \/ SshTimeout(1)
    \/ SshEnd(1)
    \/ Tock(PollTick, MaxExecTime)

SpecBuffer == InitBuffer /\ [][NextBuffer]_vars

----------------------------------------------------------------------------
(* read_file after a bash command that changes the file *)

\* what write_file stored in the file, and what the command stores in it
WrittenContent == <<"a">>

BashContent == <<"b">>

\* the state after load, or the state write_file(PathA, WrittenContent)
\* leaves at time 0
InitBashRead ==
    /\ now = 0
    /\ folders = TRUE
    /\ reviewEdit = FALSE
    /\ onFileUpdated = TRUE
    /\ fsDisk = [p \in RemotePaths |->
                     IF p = toRemotePath(PathA) THEN Some(WrittenContent) ELSE None]
    /\ fsView = fsDisk
    /\ \E cached \in BOOLEAN :
           /\ _writeCache =
                  IF cached
                  THEN cacheWrite([p \in RemotePaths |-> None], toRemotePath(PathA),
                                  WrittenContent, 0)
                  ELSE [p \in RemotePaths |-> None]
           /\ lastCW = _writeCache
    /\ _editOverride = None
    /\ calls = [s \in Slots |-> IdleCall]
    /\ prev = NoPrev
    /\ nCalls = 0
    /\ lastSet = None
    /\ ExecIdle
    /\ KindIdle

\* the command the shell is running stores content in the file remotePath
\* of the remote host
ShellModify(remotePath, content) ==
    /\ shell.some
    /\ shell.val.phase = "command"
    /\ fsDisk[remotePath] # Some(content)
    /\ fsDisk' = [fsDisk EXCEPT ![remotePath] = Some(content)]
    /\ fsView' = [fsView EXCEPT ![remotePath] = Some(content)]
    /\ UNCHANGED <<now, folders, reviewEdit, onFileUpdated, _writeCache, _editOverride,
                   calls, prev, lastCW, nCalls>>
    /\ UNCHANGED execVars
    /\ UNCHANGED kindVars
    /\ UNCHANGED lastSet

NextBashRead ==
    \/ \E r \in BashRequests : BashStart(1, r[1], r[2], r[3])
    \/ ExecSteps(1)
    \/ ShellTake
    \/ ShellModify(toRemotePath(PathA), BashContent)
    \/ \E o \in Outcomes : ShellFinish(o)
    \/ ShellEcho
    \/ ReadFileStart(1, PathA)
    \/ ReadFileRead(1)
    \/ Tock(PollTick, MaxExecTime)

SpecBashRead == InitBashRead /\ [][NextBashRead]_vars

----------------------------------------------------------------------------
(* grep over the hidden terminal, with what the search tools may answer *)

\* no match; a match; a match with exit code 1; nothing with exit code 0;
\* an error of the tool; the tool is not installed
GrepOutcomes ==
    {[stdout |-> EmptyStr, stderr |-> EmptyStr, exitCode |-> 1],
     [stdout |-> <<"a">>, stderr |-> EmptyStr, exitCode |-> 0],
     [stdout |-> <<"a">>, stderr |-> EmptyStr, exitCode |-> 1],
     [stdout |-> EmptyStr, stderr |-> EmptyStr, exitCode |-> 0],
     [stdout |-> EmptyStr, stderr |-> <<"b">>, exitCode |-> 2],
     [stdout |-> EmptyStr, stderr |-> CommandNotFound, exitCode |-> 127]}

NextGrep ==
    \/ GrepStart(1, <<"a">>, EmptyStr, EmptyStr, 0, 0)
    \/ ExecSteps(1)
    \/ ShellTake
    \/ \E o \in GrepOutcomes : ShellFinish(o)
    \/ ShellEcho
    \/ Tock(pollInterval, MaxExecTime)

SpecGrep == InitExec /\ [][NextGrep]_vars

----------------------------------------------------------------------------
(* Two bash calls at a time over the hidden terminal *)

RaceMaxTime == 1200

\* the command of the call in each slot: <<command, cwd, timeout>>
RaceRequests == <<<<<<"x">>, EmptyStr, 400>>, <<<<"y">>, EmptyStr, 400>>>>

\* what each of the two commands produces
RaceOutcome(fullCommand) ==
    IF fullCommand = bashCmd(<<"x">>)
    THEN [stdout |-> <<"a">>, stderr |-> <<"b">>, exitCode |-> 2]
    ELSE [stdout |-> <<"c">>, stderr |-> <<"d">>, exitCode |-> 3]

\* the agent makes the one call of slot s
RaceStart(s) ==
    /\ calls[s].pc = "idle"
    /\ BashStart(s, RaceRequests[s][1], RaceRequests[s][2], RaceRequests[s][3])

\* the command the shell is running ends with what it produces
RaceFinish ==
    /\ shell.some
    /\ ShellFinish(RaceOutcome(sentinels[shell.val.id].command))

NextRace ==
    \/ \E s \in Slots : RaceStart(s)
    \/ \E s \in Slots : ExecSteps(s)
    \/ ShellTake
    \/ RaceFinish
    \/ ShellEcho
    \/ Tock(pollInterval, RaceMaxTime)

SpecRace == InitExec /\ [][NextRace]_vars

----------------------------------------------------------------------------
(* Two bash calls whose commands take a given time *)

QueueMaxTime == 2000

\* the commands of the calls: <<command, cwd, timeout>>
QueueRequests == {<<<<"x">>, EmptyStr, 400>>, <<<<"y">>, EmptyStr, 400>>}

\* the time each command takes from its start by the shell to its end: the
\* first one outlives the timeout, the second one is short
RunTime(fullCommand) == IF fullCommand = bashCmd(<<"x">>) THEN 1300 ELSE PollTick

\* the command the shell is running has run for its time
CommandDue ==
    /\ shell.some
    /\ shell.val.phase = "command"
    /\ now - shell.val.since >= RunTime(sentinels[shell.val.id].command)

\* the command ends when it has run for its time
QueueFinish ==
    /\ CommandDue
    /\ ShellFinish(RaceOutcome(sentinels[shell.val.id].command))

\* the shell has something to do now: a line to read, the end of its
\* command, or the echo of the status
ShellDue ==
    \/ ~shell.some /\ term # << >>
    \/ shell.some /\ shell.val.phase = "echo"
    \/ CommandDue

\* time passes up to the next timer or the end of the command: the shell
\* and the timers that are due act before more time passes
QueueTock ==
    /\ ~ShellDue
    /\ \A s \in Slots : ~Due(s)
    /\ \/ Tock(PollTick, QueueMaxTime)
       \/ /\ shell.some
          /\ \A s \in Slots : ~OnTimer(s)
          /\ now + PollTick <= QueueMaxTime
          /\ now' = now + PollTick
          /\ UNCHANGED <<folders, reviewEdit, onFileUpdated, fsDisk, fsView, _writeCache,
                         _editOverride, calls, prev, lastCW, nCalls>>
          /\ UNCHANGED execVars
          /\ UNCHANGED kindVars
          /\ UNCHANGED lastSet

NextQueue ==
    \/ \E s \in Slots, r \in QueueRequests : BashStart(s, r[1], r[2], r[3])
    \/ \E s \in Slots : ExecSteps(s)
    \/ ShellTake
    \/ QueueFinish
    \/ ShellEcho
    \/ QueueTock

SpecQueue == InitExec /\ [][NextQueue]_vars

----------------------------------------------------------------------------
(* The six handlers, one call at a time *)

\* a review gate is configured and the reviewer has left an override
InitTools ==
    /\ now = 0
    /\ folders \in BOOLEAN
    /\ reviewEdit = TRUE
    /\ onFileUpdated = TRUE
    /\ fsDisk = [p \in RemotePaths |->
                     IF p = toRemotePath(PathA) THEN Some(<<"a">>) ELSE None]
    /\ fsView = fsDisk
    /\ _writeCache = [p \in RemotePaths |-> None]
    /\ _editOverride = setEditOverride(toRemotePath(PathA), <<"b">>, 0)
    /\ calls = [s \in Slots |-> IdleCall]
    /\ prev = NoPrev
    /\ lastCW = [p \in RemotePaths |-> None]
    /\ nCalls = 0
    /\ lastSet = None
    /\ useSSHExec \in BOOLEAN
    /\ sshHost \in {TRUE, ~useSSHExec}
    /\ _terminalReady = FALSE
    /\ _execCounter = 0
    /\ term = << >>
    /\ shell = None
    /\ sentinels = << >>
    /\ KindIdle

\* what a command may produce when the search tool may be absent
ToolOutcomes ==
    Outcomes \cup {[stdout |-> EmptyStr, stderr |-> CommandNotFound, exitCode |-> 127],
                   [stdout |-> EmptyStr, stderr |-> CommandNotFound, exitCode |-> 1]}

NextTools ==
    \/ ReadFileStart(1, PathA)
    \/ WriteFileStart(1, PathA, <<"b">>)
    \/ EditFileStart(1, PathA, <<"a">>, <<"b">>)
    \/ GlobStart(1, <<"*">>, EmptyStr)
    \/ GrepStart(1, <<"a">>, EmptyStr, EmptyStr, 0, 0)
    \/ \E r \in BashRequests : BashStart(1, r[1], r[2], r[3])
    \/ Steps(1)
    \/ GlobFind(1)
    \/ ExecSteps(1)
    \/ \E o \in ToolOutcomes, event \in {"close", "timeout", "error"} : SshSettle(1, o, event)
    \/ ShellTake
    \/ \E o \in ToolOutcomes : ShellFinish(o)
    \/ ShellEcho
    \/ Tock(pollInterval, MaxExecTime)

SpecTools == InitTools /\ [][NextTools]_vars

----------------------------------------------------------------------------
(* Claims on the anchor of edit_file *)

\* the 0-based positions at which s occurs in text
positionsOf(text, s) ==
    {i \in 0..(Len(text) - Len(s)) : SubSeq(text, i + 1, i + Len(s)) = s}

\* the call has tested its anchor against the content c.oldText
AnchorTested(c) == c.tool = "edit_file" /\ c.checked

\* C10: edit_file goes on to edit the content when old_string occurs in it
\* at exactly one position, returns the NotFound error when it occurs at no
\* position, and returns the Ambiguous error when it occurs at more than
\* one position
C10_AnchorByPositions ==
    \A s \in Slots :
        LET c == calls[s]
            n == Cardinality(positionsOf(c.oldText, c.old_string))
        IN  AnchorTested(c) =>
                /\ n = 0 => c.pc = "done" /\ c.res = Err("NotFound")
                /\ n > 1 => c.pc = "done" /\ c.res = Err("Ambiguous")
                /\ n = 1 => c.res.kind \notin {"NotFound", "Ambiguous"}

----------------------------------------------------------------------------
(* Claims on the command executor *)

\* the executions of commands that have ended
Ended == UNION {{calls[s].log[i] : i \in 1..Len(calls[s].log)} : s \in Slots}

\* the executions under way
UnderWay == {calls[s].ex : s \in {t \in Slots : calls[t].ex.via # "none"}}

\* the executions over the hidden terminal that returned a result
Returned == {e \in Ended : e.via = "terminal" /\ e.end = "returned"}

\* what the command of execution e produced on the remote host
Produced(e) == sentinels[e.id].produced

\* the wrapped command was sent before the first poll, and a result is
\* returned only after a status was read from the exit file of the own id
SubmitPollRead ==
    /\ \A e \in Ended \cup UnderWay : e.polled => e.submitted
    /\ \A e \in Returned :
           /\ e.polled
           /\ e.exitStr.some
           /\ e.exitStr.val # EmptyStr
           /\ e.id \in DOMAIN sentinels
           /\ sentinels[e.id].finished
           /\ e.exitStr.val = toDigits(Produced(e).exitCode)

\* C7 as stated: submission, then polls, then the result; the result holds
\* the complete stdout and stderr of the command and its exit status
C7_CompleteOutput ==
    /\ SubmitPollRead
    /\ \A e \in Returned :
           /\ e.stdout = Produced(e).stdout
           /\ e.stderr = Produced(e).stderr
           /\ e.exitCode = Produced(e).exitCode

\* C7: within one execution the wrapped command is sent before the first
\* poll, and a result is returned only after a non-empty status was read
\* from the exit file of the own id; exitCode is the exit status of the
\* command, and stdout and stderr are each the complete output of the
\* command when the read of the .out or .err file succeeded, and empty
\* when that read failed
C7_OutputAsRead ==
    /\ SubmitPollRead
    /\ \A e \in Returned :
           /\ e.exitCode = Produced(e).exitCode
           /\ e.outRead \in {"read", "threw"}
           /\ e.errRead \in {"read", "threw"}
           /\ e.stdout = IF e.outRead = "read" THEN Produced(e).stdout ELSE EmptyStr
           /\ e.stderr = IF e.errRead = "read" THEN Produced(e).stderr ELSE EmptyStr

\* a bash call has returned the output of its command, read after the
\* status appeared in the exit file
C7_Witness ==
    \E s \in Slots :
        /\ calls[s].tool = "bash"
        /\ calls[s].pc = "done"
        /\ ~calls[s].res.isError
        /\ \E e \in Returned :
               /\ e = calls[s].log[1]
               /\ e.outRead = "read"
               /\ e.errRead = "read"
               /\ e.stdout = <<"a">>
               /\ e.stderr = <<"b">>
               /\ e.exitCode = 2
               /\ calls[s].res.text = <<"a", "\n", "b">>

\* C8: an execution returns a result only if its exit file appeared within
\* timeoutMs of the submission, so a bash call whose command outlives the
\* timeout returns an error result
C8_ResultWithinTimeout ==
    /\ \A e \in Returned : sentinels[e.id].exitAt - e.startTime <= e.timeoutMs
    /\ \A s \in Slots :
           LET c == calls[s]
           IN  (/\ c.tool = "bash"
                /\ c.pc = "done"
                /\ Len(c.log) = 1
                /\ c.log[1].via = "terminal"
                /\ c.log[1].id \in DOMAIN sentinels
                /\ sentinels[c.log[1].id].finished
                /\ sentinels[c.log[1].id].exitAt - c.log[1].startTime > c.log[1].timeoutMs)
               => c.res.isError

----------------------------------------------------------------------------
(* Claims on the handler boundary *)

\* the failures that end a handler: of the path resolver, of the read of
\* the content by read_file and edit_file, of the remote write, of
\* findFiles, of the review gate, of the shell channel when a command or an
\* abort is sent, of the ssh subprocess, and the timeout of a command
Fatal ==
    {"NoWorkspace", "IOFailure", "ReviewFailed", "ChannelFailure", "NoSshHost",
     "SshFailed", "TimedOut"}

\* the failures a handler absorbs: of the read of the prior content by
\* write_file and on the override paths, of the polls of the exit file, of
\* the reads of the .out and .err files, and of the shell channel when the
\* cleanup is sent
Absorbed == {"PriorRead", "PollRead", "OutputRead", "CleanupSend"}

\* no handler lets an exception escape, and a call that has ended has
\* returned a result
NoEscape ==
    \A s \in Slots :
        /\ calls[s].pc # "escaped"
        /\ calls[s].failed \subseteq Fatal \cup Absorbed
        /\ calls[s].pc = "done" => calls[s].res.kind # "none"

\* C9 as stated: no exception escapes, and every failure of an operation a
\* handler called yields an error result
C9_EveryFailureIsError ==
    /\ NoEscape
    /\ \A s \in Slots :
           (calls[s].pc = "done" /\ calls[s].failed # {}) => calls[s].res.isError

\* C9: each of the six handlers ends by returning a result and never lets
\* an exception escape; a failure of the path resolver, of the content
\* read of read_file or edit_file, of the remote write, of findFiles, of
\* the review gate, of the shell channel when a command or an abort is
\* sent, or a timeout of the command yields an error result, and a call
\* whose operations all succeeded or whose failures were all absorbed is
\* not ended by them
C9_FatalFailureIsError ==
    /\ NoEscape
    /\ \A s \in Slots :
           /\ calls[s].failed \cap Fatal # {} =>
                  calls[s].pc = "done" /\ calls[s].res.isError
           /\ (calls[s].pc = "done" /\ calls[s].res.isError) =>
                  \/ calls[s].failed \cap Fatal # {}
                  \/ calls[s].res.kind \in {"Rejected", "NotFound", "Ambiguous", "GrepError"}

\* a bash call has ended with the error result of a timeout, after polls
\* of the exit file that failed
C9_Witness ==
    \E s \in Slots :
        /\ calls[s].tool = "bash"
        /\ calls[s].pc = "done"
        /\ calls[s].res = Err("TimedOut")
        /\ calls[s].failed = {"PollRead", "TimedOut"}

----------------------------------------------------------------------------
(* Claims on the review gate *)

\* a write_file or edit_file with a review gate configured that found no
\* override to apply
GateConfigured(c) ==
    /\ c.tool \in {"write_file", "edit_file"}
    /\ reviewEdit
    /\ c.cons.done
    /\ ~c.ov.some

\* C11: with a review gate configured and no override pending for the
\* path, write_file and edit_file write only after the gate accepted, and
\* what they write is the finalContent of the gate; when the gate rejects,
\* the handler returns an error result and the remote file is as it was
C11_GateDecides ==
    \A s \in Slots :
        LET c == calls[s]
        IN  GateConfigured(c) =>
                /\ c.wrote.some
                      => /\ c.review.some
                         /\ c.review.val.accepted
                         /\ c.wrote.val = c.review.val.finalContent
                         /\ fsDisk[c.remotePath] = c.wrote
                /\ ~c.wrote.some => fsDisk[c.remotePath] = c.disk0
                /\ (c.review.some /\ ~c.review.val.accepted)
                      => /\ c.pc = "done"
                         /\ c.res.isError
                         /\ ~c.wrote.some
                /\ (c.pc = "done" /\ ~c.res.isError) => c.wrote.some

\* the gate accepted with a content of the reviewer, and that content, not
\* the proposed one, is in the remote file
C11_Witness ==
    \E s \in Slots :
        LET c == calls[s]
        IN  /\ GateConfigured(c)
            /\ c.pc = "done"
            /\ ~c.res.isError
            /\ c.review.some
            /\ c.review.val.accepted
            /\ c.review.val.finalContent # c.proposed
            /\ fsDisk[c.remotePath] = Some(c.review.val.finalContent)
            /\ fsDisk[c.remotePath] # c.disk0

----------------------------------------------------------------------------
(* Claims on the fallback of grep *)

\* the result execRemoteCommand resolved with in execution e
ResultOf(e) == [stdout |-> e.stdout, stderr |-> e.stderr, exitCode |-> e.exitCode]

\* the executions call c has started: those that ended and the one under way
Executions(c) ==
    IF c.ex.via # "none" /\ c.ex.end = "none" THEN Append(c.log, c.ex) ELSE c.log

\* C12: grep runs the fallback command exactly when the primary command
\* returned exit code 127 or a stderr holding "command not found"; the
\* result of the call is then that of the fallback execution alone; a call
\* runs at most two commands, the primary one and the fallback once
C12_FallbackOnce ==
    \A s \in Slots :
        LET c == calls[s]
            execs == Executions(c)
        IN  c.tool = "grep" =>
                /\ Len(execs) <= 2
                /\ Len(execs) >= 1 => execs[1].command = rgCmd(c)
                /\ Len(execs) = 2
                      => /\ execs[2].command = grepCmd(c)
                         /\ execs[1].end = "returned"
                         /\ rgAbsent(ResultOf(execs[1]))
                /\ (/\ Len(c.log) >= 1
                    /\ c.log[1].end = "returned"
                    /\ \/ c.log[1].exitCode = 127
                       \/ includes(c.log[1].stderr, CommandNotFound))
                      => Len(execs) = 2
                /\ (c.pc = "done" /\ Len(c.log) >= 1)
                      => LET last == c.log[Len(c.log)]
                         IN  IF last.end = "returned"
                             THEN c.res = grepResult(c, ResultOf(last)).res
                             ELSE c.res.isError
                /\ c.pc = "done" => (Len(execs) = Len(c.log))

\* the search tool and the fallback tool were both absent: the call ran
\* two commands and returned the error of the fallback
C12_Witness ==
    \E s \in Slots :
        LET c == calls[s]
        IN  /\ c.tool = "grep"
            /\ c.pc = "done"
            /\ Len(c.log) = 2
            /\ c.log[1].exitCode = 127
            /\ c.log[2].end = "returned"
            /\ c.log[2].exitCode = 127
            /\ c.log[2].command = grepCmd(c)
            /\ c.res.isError
            /\ c.res.kind = "GrepError"
            /\ c.res.text = CommandNotFound

----------------------------------------------------------------------------
(* Claims on concurrent calls over the hidden terminal *)

\* execution e has sent its wrapped command and has not ended its polling
InFlight(e) == e.via = "terminal" /\ e.submitted /\ e.end = "none"

\* C13: at any time at most one execution is between the submission of its
\* wrapped command and the end of its polling of the sentinel files
C13_Serialized ==
    Cardinality({s \in Slots : InFlight(calls[s].ex)}) <= 1

\* what the command of execution e produces
Own(e) == RaceOutcome(e.command)

\* the executions over the hidden terminal, ended or under way
Started == {e \in Ended \cup UnderWay : e.via = "terminal"}

\* the call in slot t has returned a result while the call in slot s, whose
\* wrapped command was sent no later, is still polling
Overlap(s, t) ==
    /\ s # t
    /\ InFlight(calls[s].ex)
    /\ calls[t].pc = "done"
    /\ Len(calls[t].log) = 1
    /\ calls[t].log[1] \in Returned
    /\ calls[s].ex.startTime <= calls[t].log[1].startTime

----------------------------------------------------------------------------
(* Claims on the path resolver *)

\* filePath names the local working root or something below it
UnderLocalRoot(filePath) ==
    \/ filePath = getLocalCwd
    \/ startsWith(filePath, getLocalCwd \o <<"/">>)

\* the workspace-relative form of a path below the local working root: what
\* follows the root and its separator
RelativeForm(filePath) == sliceFrom(filePath, Len(getLocalCwd) + 1)

\* the glob call has resolved the path it was given
Resolved(c) == c.tool = "glob" /\ c.pc \in {"find", "done"} /\ c.file_path # EmptyStr

\* the first half of C15: a path below the local working root maps to the
\* remote path of its workspace-relative form (where what follows the root
\* is a relative path), the root itself to the remote workspace root
UnderRootAsRelative ==
    \A s \in Slots :
        LET c == calls[s]
        IN  (/\ Resolved(c)
             /\ UnderLocalRoot(c.file_path)
             /\ ~isAbsolute(RelativeForm(c.file_path))) =>
                IF RelativeForm(c.file_path) = EmptyStr
                THEN c.remotePath = RemoteCwd
                ELSE c.remotePath = toRemotePath(RelativeForm(c.file_path))

\* C15: toRemotePath maps a path below the local working root to the
\* remote path of its workspace-relative form, the local working root to
\* the remote workspace root, and returns an absolute path that is not
\* below the local working root as it is
C15_ToRemotePath ==
    /\ UnderRootAsRelative
    /\ \A s \in Slots :
           LET c == calls[s]
           IN  (/\ Resolved(c)
                /\ isAbsolute(c.file_path)
                /\ ~UnderLocalRoot(c.file_path)) => c.remotePath = c.file_path

----------------------------------------------------------------------------
(* Claims on truncateOutput *)

\* the read_file call has returned the content it read from the file
ReadLive(c) ==
    /\ c.tool = "read_file"
    /\ c.pc = "done"
    /\ ~c.res.isError
    /\ c.liveRead
    /\ fsView[c.remotePath].some

\* C16: a text of at most 30,000 characters is returned as it is; of a
\* longer text the first 15,000 characters, the truncation marker and the
\* last 15,000 characters are returned, so that the result is no longer
\* than 30,000 characters and the marker, and starts and ends as the text
C16_HeadMarkerTail ==
    \A s \in Slots :
        LET c == calls[s]
        IN  ReadLive(c) =>
                LET text == fsView[c.remotePath].val
                    n == Len(text)
                    out == c.res.text
                IN  IF n <= 30000
                    THEN out = text
                    ELSE /\ Len(out) = 15000 + Len(TruncationMarker) + 15000
                         /\ Len(out) <= 30000 + Len(TruncationMarker)
                         /\ SubSeq(out, 1, 15000) = SubSeq(text, 1, 15000)
                         /\ SubSeq(out, 15001, 15000 + Len(TruncationMarker))
                                = TruncationMarker
                         /\ SubSeq(out, Len(out) - 14999, Len(out))
                                = SubSeq(text, n - 14999, n)

\* a file of 30,001 characters was read and returned with the marker in
\* place of its single middle character
C16_Witness ==
    \E s \in Slots :
        LET c == calls[s]
        IN  /\ ReadLive(c)
            /\ Len(fsView[c.remotePath].val) = 30001
            /\ Len(c.res.text) = 30000 + Len(TruncationMarker)
            /\ c.res.text[15001] = "\n"
            /\ c.res.text[Len(c.res.text)] = fsView[c.remotePath].val[30001]

----------------------------------------------------------------------------
(* Claims on the missing workspace root *)

\* C17: a missing workspace root is raised when the tools are registered,
\* so that no tool call is answered with an error result caused by it
C17_NoPerCallRootError ==
    \A s \in Slots :
        calls[s].pc = "done" =>
            ~(calls[s].res.isError /\ "NoWorkspace" \in calls[s].failed)

----------------------------------------------------------------------------
(* Claims on the result of bash *)

\* C18: when the command of a bash call ends with a status other than 0
\* (and its output files were read), the text of the result holds the
\* error output of the command and the status
C18_FailureConveyed ==
    \A s \in Slots :
        LET c == calls[s]
        IN  (/\ c.tool = "bash"
             /\ c.pc = "done"
             /\ Len(c.log) = 1
             /\ c.log[1].end = "returned"
             /\ c.log[1].outRead = "read"
             /\ c.log[1].errRead = "read"
             /\ c.log[1].exitCode # 0)
            => /\ includes(c.res.text, Produced(c.log[1]).stderr)
               /\ includes(c.res.text, toDigits(c.log[1].exitCode))

----------------------------------------------------------------------------
(* Claims on the override left by a call on another path *)

\* C19 as stated: when the write_file or edit_file that finds the override
\* resolves to another path than the override's, the override is discarded:
\* the mailbox is empty afterwards
C19_DiscardedOnMismatch ==
    \A s \in Slots :
        LET c == calls[s]
        IN  (/\ c.cons.done
             /\ c.cons.before.some
             /\ c.cons.before.val.remotePath # c.remotePath)
            => /\ c.cons.ret = None
               /\ c.cons.after = None

\* C19: the override is applied by a write_file or edit_file exactly when
\* the call resolves to the override's path before the TTL has passed, and
\* it leaves the mailbox exactly when it is applied or found at an age of
\* the TTL or more; a call on another path within the TTL neither applies
\* nor discards it
C19_KeptUntilMatchOrExpiry ==
    \A s \in Slots :
        LET c == calls[s]
        IN  (c.cons.done /\ c.cons.before.some) =>
                LET o == c.cons.before.val
                    fresh == OverrideAge(c) < EDIT_OVERRIDE_TTL
                    own == o.remotePath = c.remotePath
                IN  /\ c.cons.ret.some <=> (own /\ fresh)
                    /\ c.cons.ret.some => c.cons.ret.val = o.content
                    /\ c.cons.after = None <=> (own \/ ~fresh)
                    /\ c.cons.after # None => c.cons.after = c.cons.before
                    /\ c.ov = c.cons.ret

\* a call on another path has written its own content, and the override is
\* still in the mailbox
C19_Witness ==
    \E s \in Slots :
        LET c == calls[s]
        IN  /\ c.cons.done
            /\ c.cons.before.some
            /\ c.cons.before.val.remotePath # c.remotePath
            /\ OverrideAge(c) < EDIT_OVERRIDE_TTL
            /\ c.pc = "done"
            /\ ~c.res.isError
            /\ c.wrote.some
            /\ c.wrote.val # c.cons.before.val.content
            /\ _editOverride = c.cons.before

----------------------------------------------------------------------------
(* Claims on the desired extensionKind *)

\* v is a string that is not empty
NonEmpty(v) == v # Undefined /\ v # Some(EmptyStr)

\* the environment is remote as C20 has it
Remote(e) ==
    \/ NonEmpty(e.remoteAuthority)
    \/ NonEmpty(e.remoteName)
    \/ NonEmpty(e.sshHost)
    \/ (e.folderScheme # Undefined /\ e.folderScheme # Some(<<"file">>))

\* C20: the desired extensionKind is ["workspace","ui"] exactly when the
\* environment is remote and forceLocal is off, and ["ui","workspace"]
\* otherwise; the environment is remote exactly when remoteAuthority,
\* remoteName or the sshHost setting is not empty or the scheme of the
\* first workspace folder is not "file"
C20_DesiredKind ==
    sync.some =>
        /\ sync.val.isRemote <=> Remote(env)
        /\ sync.val.desired.items =
               IF Remote(env) /\ ~forceLocal
               THEN <<"workspace", "ui">> ELSE <<"ui", "workspace">>
        /\ sync.val.desired.type = "array"

\* a window on a folder of another scheme than "file", with nothing else
\* telling a remote, and forceLocal off: the desired kind is workspace first
C20_Witness ==
    /\ sync.some
    /\ ~NonEmpty(env.remoteAuthority)
    /\ ~NonEmpty(env.remoteName)
    /\ ~NonEmpty(env.sshHost)
    /\ env.folderScheme = Some(<<"vscode-remote">>)
    /\ ~forceLocal
    /\ sync.val.desired = WorkspaceFirst

----------------------------------------------------------------------------
(* Claims on the reload prompt *)

----------------------------------------------------------------------------
(* Claims on the effects of write_file and edit_file *)

\* a call of write_file or edit_file that has resolved its path
Writing(c) == c.tool \in {"write_file", "edit_file"} /\ c.cons.done

\* the cache entry of the call's path is as the call found it, but for an
\* entry older than the TTL, which the call's lookup evicts
CacheAsFound(c) ==
    /\ lastCW[c.remotePath] = c.look.entry
    /\ \/ _writeCache[c.remotePath] = c.cache0
       \/ /\ _writeCache[c.remotePath] = None
          /\ c.cache0.some
          /\ c.look.at - c.cache0.val.timestamp > WRITE_CACHE_TTL

\* C23: a write_file or edit_file that succeeds has stored its content in
\* the remote file, made one cacheWrite for its path with that content and
\* handed that content once to the update callback (when one is given);
\* a call that has not written or that ends in an error (the write failed,
\* the gate rejected, the anchor was not found or found more than once)
\* leaves the remote file and the cache entry of its path as they were
\* and notifies nothing; NotFound and Ambiguous come before any review
C23_CacheAndNotifyOnSuccess ==
    \A s \in Slots :
        LET c == calls[s]
            P == c.remotePath
        IN  Writing(c) =>
                /\ (c.pc = "done" /\ ~c.res.isError) =>
                       /\ c.wrote.some
                       /\ fsDisk[P] = c.wrote
                       /\ _writeCache[P].some
                       /\ _writeCache[P].val.content = c.wrote.val
                       /\ _writeCache[P].val.timestamp >= c.cons.at
                       /\ _writeCache[P].val.timestamp <= now
                       /\ lastCW[P] = _writeCache[P]
                       /\ c.notified = IF onFileUpdated THEN 1 ELSE 0
                       /\ onFileUpdated => c.note = Some(<<c.oldText, c.wrote.val>>)
                /\ ~(c.pc = "done" /\ ~c.res.isError) =>
                       /\ ~c.wrote.some
                       /\ fsDisk[P] = c.disk0
                       /\ CacheAsFound(c)
                       /\ c.notified = 0
                       /\ c.note = None
                /\ (c.pc = "done" /\ c.res.kind \in {"NotFound", "Ambiguous"}) => ~c.gate

\* an edit_file has replaced its anchor in the file: the new content is in
\* the remote file and in the cache, and the callback was given it
C23_Witness ==
    \E s \in Slots :
        LET c == calls[s]
        IN  /\ Writing(c)
            /\ c.tool = "edit_file"
            /\ c.pc = "done"
            /\ ~c.res.isError
            /\ onFileUpdated
            /\ c.notified = 1
            /\ fsDisk[c.remotePath] = Some(<<"b">>)
            /\ c.disk0 = Some(<<"a">>)
            /\ _writeCache[c.remotePath].some
            /\ _writeCache[c.remotePath].val.content = <<"b">>

----------------------------------------------------------------------------
(* Claims on the single slot of the mailbox *)

\* the last setEditOverride before c looked at the mailbox was for another
\* path than c's and found there an override for c's path, younger than
\* the TTL
Displaced(c) ==
    /\ c.tool \in {"write_file", "edit_file"}
    /\ c.cons.done
    /\ c.cons.over # None
    /\ c.cons.over.val.remotePath # c.remotePath
    /\ c.cons.over.val.found # None
    /\ c.cons.over.val.found.val.remotePath = c.remotePath
    /\ c.cons.over.val.at - c.cons.over.val.found.val.timestamp < EDIT_OVERRIDE_TTL

\* C24: the mailbox holds one override at most: a setOverride for path B
\* made while an override for another path A is pending replaces it and
\* nothing is queued, so that the mailbox holds the override of B alone,
\* and a write_file or edit_file on A that follows finds no override for
\* A, leaves the mailbox as it is and writes the content it was asked to
\* write
C24_LastWriterWins ==
    /\ (lastSet # None /\ _editOverride # None) =>
           /\ _editOverride.val.remotePath = lastSet.val.remotePath
           /\ _editOverride.val.timestamp = lastSet.val.at
    /\ \A s \in Slots :
           LET c == calls[s]
           IN  Displaced(c) =>
                   /\ c.ov = None
                   /\ c.cons.before # None =>
                          c.cons.before.val.remotePath = c.cons.over.val.remotePath
                   /\ c.cons.after = None \/ c.cons.after = c.cons.before
                   /\ c.wrote # None =>
                          c.wrote.val =
                              IF c.tool = "write_file" THEN c.content
                              ELSE replace(c.oldText, c.old_string, c.new_string)

\* an override for /a was pending, setOverride for /b replaced it, and a
\* write_file on /a has written the empty content it was asked to write,
\* not the content of the override; the override for /b is still there
C24_Witness ==
    \E s \in Slots :
        LET c == calls[s]
        IN  /\ Displaced(c)
            /\ c.tool = "write_file"
            /\ c.pc = "done"
            /\ c.wrote = Some(EmptyStr)
            /\ c.cons.over.val.found.val.content # EmptyStr
            /\ c.cons.before # None
            /\ _editOverride = c.cons.before

----------------------------------------------------------------------------
(* Claims on the end of an execution *)

----------------------------------------------------------------------------
(* Claims on the cleanup of the sentinel files *)

\* the executions over the hidden terminal whose command was submitted
Submitted == {e \in Ended \cup UnderWay : e.via = "terminal" /\ e.submitted}

\* the shell has run every line sent to the terminal
Drained == term = << >> /\ shell = None

\* no sentinel file of execution e is on the remote host
NoFiles(e) ==
    e.id \in DOMAIN sentinels =>
        /\ sentinels[e.id].out = None
        /\ sentinels[e.id].err = None
        /\ sentinels[e.id].exit = None

\* C26 as stated: for every execution over the shell channel the cleanup
\* of its three files is submitted exactly once by the time it ends, and
\* once the shell has run every line sent to it none of the files is left
C26_CleanupOnce ==
    \A e \in Submitted :
        e.end # "none" =>
            /\ e.cleanups = 1
            /\ Drained => NoFiles(e)

\* C26 as the code has it: the cleanup is submitted once at most, and
\* exactly once when the execution ends with a result (after the exit file
\* and the two output files were read) or with the timeout (after
\* timeoutMs has passed), and then the files are gone once the shell has
\* run every line sent to it, also when the command ended after the
\* timeout; when sending the cleanup fails and the execution ends with
\* that failure, no cleanup is submitted
C26_CleanupOnceUnlessSendFails ==
    \A e \in Submitted :
        /\ e.cleanups <= 1
        /\ e.end = "none" => e.cleanups = 0
        /\ e.end \in {"returned", "timedOut"} =>
               /\ e.cleanups = 1
               /\ Drained => NoFiles(e)
        /\ e.end = "returned" =>
               /\ e.exitStr # None
               /\ e.outRead # "none"
               /\ e.errRead # "none"
        /\ e.end = "timedOut" => now - e.startTime >= e.timeoutMs
        /\ e.end = "threw" => e.cleanups = 0

\* a call timed out, its command ended after the timeout, the shell has run
\* the abort line after it, and the three files are gone
C26_Witness ==
    \E e \in Submitted :
        /\ e.end = "timedOut"
        /\ e.cleanups = 1
        /\ e.id \in DOMAIN sentinels
        /\ sentinels[e.id].finished
        /\ sentinels[e.id].exitAt - e.startTime > e.timeoutMs
        /\ Drained
        /\ sentinels[e.id].out = None
        /\ sentinels[e.id].err = None
        /\ sentinels[e.id].exit = None

----------------------------------------------------------------------------
(* Claims on the ids of the executions *)

\* `${Date.now()}_${++_execCounter}`: the text of an id
idText(id) == toDigits(id[1]) \o <<"_">> \o toDigits(id[2])

\* the executions over the hidden terminal, each by its call and its place
\* among the executions of that call
TerminalExecutions ==
    {p \in Slots \X (1..2) :
        /\ p[2] <= Len(Executions(calls[p[1]]))
        /\ Executions(calls[p[1]])[p[2]].via = "terminal"}

IdOf(p) == Executions(calls[p[1]])[p[2]].id

\* C27: the ids remoteExec generates are pairwise distinct, also for calls
\* started within the same millisecond, so that no two commands share the
\* name of a sentinel file
C27_DistinctIds ==
    /\ \A p, q \in TerminalExecutions : p # q => idText(IdOf(p)) # idText(IdOf(q))
    /\ \A i, j \in DOMAIN sentinels : i # j => idText(i) # idText(j)
    /\ \A p \in TerminalExecutions : IdOf(p)[2] \in 1.._execCounter

\* two calls started in the same millisecond are under way, with ids of
\* the same time and different counters
C27_Witness ==
    \E p, q \in TerminalExecutions :
        /\ p[1] # q[1]
        /\ IdOf(p)[1] = IdOf(q)[1]
        /\ IdOf(p)[2] # IdOf(q)[2]
        /\ calls[p[1]].pc \notin {"idle", "done", "escaped"}
        /\ calls[q[1]].pc \notin {"idle", "done", "escaped"}

----------------------------------------------------------------------------
(* Claims on the replacement of edit_file *)

\* C28: when edit_file succeeds with no override and no review gate, on a
\* content where old_string occurs at one position, the content written is
\* the old content with that occurrence replaced by new_string as it is,
\* character by character, the rest of the content unchanged
C28_VerbatimReplacement ==
    \A s \in Slots :
        LET c == calls[s]
            at == positionsOf(c.oldText, c.old_string)
        IN  (/\ c.tool = "edit_file"
             /\ c.pc = "done"
             /\ ~c.res.isError
             /\ c.ov = None
             /\ ~c.gate
             /\ Cardinality(at) = 1)
            => \A i \in at :
                   c.wrote = Some(SubSeq(c.oldText, 1, i) \o c.new_string
                                      \o sliceFrom(c.oldText, i + Len(c.old_string)))

----------------------------------------------------------------------------
(* Claims on the result of grep *)

\* C29: grep classifies the result of its last execution, the fallback
\* when there was one: exit code 1 with an empty stdout gives the result
\* "No matches found.", not an error; an exit code above 1 gives an error
\* result; everything else gives the truncated stdout, not an error
C29_GrepClassification ==
    \A s \in Slots :
        LET c == calls[s]
        IN  (/\ c.tool = "grep"
             /\ c.pc = "done"
             /\ c.log # << >>
             /\ c.log[Len(c.log)].end = "returned")
            => LET r == ResultOf(c.log[Len(c.log)])
               IN  /\ (r.exitCode = 1 /\ r.stdout = EmptyStr) =>
                          /\ ~c.res.isError
                          /\ c.res.text = NoMatches
                   /\ r.exitCode > 1 => c.res.isError
                   /\ (r.exitCode <= 1 /\ ~(r.exitCode = 1 /\ r.stdout = EmptyStr)) =>
                          /\ ~c.res.isError
                          /\ c.res.text = truncateOutput(r.stdout, DefaultMaxChars)

\* rg was not installed, the fallback found nothing and ended with exit
\* code 1: the result is "No matches found."
C29_Witness ==
    \E s \in Slots :
        LET c == calls[s]
        IN  /\ c.tool = "grep"
            /\ c.pc = "done"
            /\ Len(c.log) = 2
            /\ c.log[1].exitCode = 127
            /\ c.log[2].end = "returned"
            /\ c.log[2].exitCode = 1
            /\ c.log[2].stdout = EmptyStr
            /\ ~c.res.isError
            /\ c.res.text = NoMatches

----------------------------------------------------------------------------
(* Claims on the buffers of sshExec *)

\* the executions of call c, the one under way included
ExecutionsOf(c) == {c.ex} \cup {c.log[i] : i \in 1..Len(c.log)}

\* C30: in sshExec neither the stdout nor the stderr accumulated is ever
\* longer than MAX_BUFFER, whatever chunks the subprocess emits
C30_BuffersBounded ==
    \A s \in Slots : \A e \in ExecutionsOf(calls[s]) :
        e.via = "ssh" => /\ e.outLen <= MAX_BUFFER
                         /\ e.errLen <= MAX_BUFFER

----------------------------------------------------------------------------
(* Claims on the two executors *)

\* the command of execution e ended within timeoutMs of its submission:
\* the exit file was written, or the ssh subprocess closed, by then
CompletedInTime(e) ==
    IF e.via = "ssh"
    THEN e.end = "returned" /\ e.closedAt - e.startTime <= e.timeoutMs
    ELSE /\ e.id \in DOMAIN sentinels
         /\ sentinels[e.id].finished
         /\ sentinels[e.id].exitAt - e.startTime <= e.timeoutMs

\* what the command of execution e ended with
CommandOutcome(e) == IF e.via = "ssh" THEN ResultOf(e) ELSE Produced(e)

\* the execute contract: a result is returned only for a command that
\* ended within timeoutMs, and it is what the command ended with; the
\* failure TimedOut is raised only for a command that did not
ExecuteContract(e) ==
    /\ e.end = "returned" => /\ CompletedInTime(e)
                             /\ ResultOf(e) = CommandOutcome(e)
    /\ e.end = "timedOut" => ~CompletedInTime(e)

\* C31: the executor over the hidden terminal and the executor over ssh
\* meet the same execute contract: each returns the stdout, stderr and exit
\* code of a command that ends within timeoutMs, and fails with TimedOut
\* for a command that outlives timeoutMs
C31_SameContract ==
    \A e \in Ended : e.via \in {"terminal", "ssh"} => ExecuteContract(e)

\* the part of C31 that holds: the executor over ssh meets the contract
SshMeetsContract ==
    \A e \in Ended : e.via = "ssh" => ExecuteContract(e)

----------------------------------------------------------------------------
(* Claims on calls that overlap *)

\* an edit_file that returned success after writing what it proposed
EditedAsProposed(c) ==
    /\ c.tool = "edit_file"
    /\ c.pc = "done"
    /\ ~c.res.isError
    /\ c.wrote = Some(c.proposed)

\* C32: when two edit_file calls on one path that replace different unique
\* anchors have both returned success, the content of the file holds both
\* replacements, however the calls overlapped
C32_BothEditsTakeEffect ==
    \A s, t \in Slots :
        (/\ s # t
         /\ EditedAsProposed(calls[s])
         /\ EditedAsProposed(calls[t])
         /\ calls[s].remotePath = calls[t].remotePath
         /\ calls[s].old_string # calls[t].old_string)
        => LET content == fsDisk[calls[s].remotePath]
           IN  /\ content.some
               /\ includes(content.val, calls[s].new_string)
               /\ includes(content.val, calls[t].new_string)

\* a call is between its call of writeFile for remotePath and the
\* continuation of its handler
WriteInFlight(remotePath) ==
    \E s \in Slots :
        /\ calls[s].remotePath = remotePath
        /\ calls[s].pc \in {"write", "stored", "ovWrite"}

\* the cache holds an entry for remotePath that is not older than the TTL
FreshEntry(remotePath) ==
    /\ _writeCache[remotePath].some
    /\ now - _writeCache[remotePath].val.timestamp <= WRITE_CACHE_TTL

\* C33: whenever the cache holds a fresh entry for a path and no write to
\* the path is in flight, the content of the entry is the content that
\* write_file and edit_file stored last in the remote file, also when the
\* writes overlapped and resolved in another order than they were stored
C33_CacheIsLastStored ==
    \A remotePath \in RemotePaths :
        (FreshEntry(remotePath) /\ ~WriteInFlight(remotePath))
        => fsDisk[remotePath] = Some(_writeCache[remotePath].val.content)

----------------------------------------------------------------------------
(* Claims on read_file after a command *)

\* the call before the one in slot s was a bash that returned the result
\* of its command: the command had ended, with what it stored in the
\* remote file, before the call in slot s was made
AfterBash(s) ==
    /\ prev.tool = "bash"
    /\ ~prev.isError
    /\ calls[s].tool = "read_file"

\* C34: a read_file made after a bash command has changed the file returns
\* the content the command stored, never the content from before, also
\* when the file was written through write_file less than the TTL before
C34_ReadSeesCommand ==
    \A s \in Slots :
        LET c == calls[s]
        IN  (/\ AfterBash(s)
             /\ c.pc = "done"
             /\ ~c.res.isError
             /\ fsDisk[c.remotePath] = Some(BashContent))
            => c.res.text = truncateOutput(BashContent, DefaultMaxChars)

----------------------------------------------------------------------------
(* Claims on the override when the write fails *)

\* the call took an override from the mailbox and its write of the
\* content of the override failed
OverrideWriteFailed(c) ==
    /\ c.tool \in {"write_file", "edit_file"}
    /\ c.pc = "done"
    /\ c.ov.some
    /\ c.wrote = None
    /\ "IOFailure" \in c.failed

\* C35: an override leaves the mailbox only when its content has been
\* written to the remote file: after a call whose write of the content of
\* the override failed, the mailbox still holds an override for a retry
C35_OverrideKeptOnFailure ==
    \A s \in Slots : OverrideWriteFailed(calls[s]) => _editOverride # None

----------------------------------------------------------------------------
(* Claims on commands that wait for the shell *)

\* a bash call over the hidden terminal has ended; its command, run alone,
\* ends within the timeout of the call
ShortCommandEnded(c) ==
    /\ c.tool = "bash"
    /\ c.pc = "done"
    /\ Len(c.log) = 1
    /\ c.log[1].via = "terminal"
    /\ RunTime(c.log[1].command) < c.log[1].timeoutMs

\* the call failed with TimedOut though its command had not ended within
\* the timeout of the call: no failure of a poll made it time out
TimedOutWaiting(c) ==
    /\ c.res.kind = "TimedOut"
    /\ ~CompletedInTime(c.log[1])

\* C36: a call whose command, run alone, ends within its timeout does not
\* fail with TimedOut because its command waited in the hidden terminal
\* behind the command of an earlier call: the time spent waiting does not
\* count
C36_QueueTimeNotCounted ==
    \A s \in Slots :
        ShortCommandEnded(calls[s]) => ~TimedOutWaiting(calls[s])

\* the call in slot s was made after the call in slot t had failed with
\* TimedOut and had sent its abort
AfterAbort(s, t) ==
    /\ s # t
    /\ calls[t].pc = "done"
    /\ calls[t].res.kind = "TimedOut"
    /\ Len(calls[t].log) = 1
    /\ calls[t].log[1].cleanups = 1
    /\ Len(calls[s].log) = 1
    /\ calls[s].log[1].id[1] >=
           calls[t].log[1].startTime + calls[t].log[1].timeoutMs + pollInterval

\* C37: after a call has failed with TimedOut its abort has stopped its
\* command: a call of a short command made afterwards ends within its own
\* timeout
C37_AbortFreesTheShell ==
    \A s, t \in Slots :
        (AfterAbort(s, t) /\ ShortCommandEnded(calls[s]))
        => ~TimedOutWaiting(calls[s])

----------------------------------------------------------------------------
(* Claims on paths beside the local working root and on forms of a path *)

\* filePath goes on from the characters of the local working root without
\* being the root or something below it: a sibling such as <root>x
BesideLocalRoot(filePath) ==
    /\ startsWith(filePath, getLocalCwd)
    /\ ~UnderLocalRoot(filePath)

\* C38: toRemotePath applies the rule of the local working root to the root
\* and to the paths below it only: an absolute path that has the characters
\* of the root as a prefix without being below the root is not rewritten
\* into the remote workspace
C38_SiblingNotRewritten ==
    \A s \in Slots :
        LET c == calls[s]
        IN  (/\ Resolved(c)
             /\ isAbsolute(c.file_path)
             /\ BesideLocalRoot(c.file_path))
            => /\ c.remotePath = c.file_path
               /\ ~startsWith(c.remotePath, RemoteCwd)

\* C39: the forms of a logical path that name one remote file (with "."
\* or ".." segments, normalized, relative to the workspace, below the local
\* root) resolve to one remote path, the normalized one, which is the key
\* of the cache: an absolute path resolves to what its normalized form
\* resolves to, and every remote path is in normal form
C39_OneRemotePathPerFile ==
    \A s \in Slots :
        LET c == calls[s]
        IN  Resolved(c) =>
                /\ c.remotePath = posixNormalize(c.remotePath)
                /\ (isAbsolute(c.file_path) /\ ~startsWith(c.file_path, getLocalCwd))
                       => c.remotePath = toRemotePath(posixNormalize(c.file_path))

====
